---- MODULE Spec2Model ----
(***************************************************************************)
(* Model of skills/data-analysis/analyzer.py (Analyzer.profile,            *)
(* correlation, generate_insights, segment_rfm, time_series_stats and      *)
(* group_stats) and of skills/data-analysis/data_cleaner.py (the methods   *)
(* of DataCleaner), together with the pandas operations these call         *)
(* (qcut, cut, rank, isnull, select_dtypes, mean/std/skew/corr, fillna,    *)
(* dropna, drop_duplicates, quantile, sort_values, copy).                  *)
(*                                                                         *)
(* Numbers.  Cells are integers; a missing cell (NaN/None) is the value    *)
(* NaN.  Quantile edges and equal-width edges are rationals with           *)
(* denominator q (the number of buckets); the model keeps them multiplied  *)
(* by q, so every comparison is an exact integer comparison.  The segment  *)
(* counts of NSegments are powers of two, for which the float arithmetic   *)
(* of numpy on these small integers is exact as well.  The one place where *)
(* float rounding decides the outcome (the middle edge of pandas.cut when   *)
(* all values are equal) is a nondeterministic choice, fp.                 *)
(***************************************************************************)
EXTENDS Integers, Sequences, FiniteSets, TLC

VARIABLES df, analyzer, visualizer, pyplot, files, out

vars == <<df, analyzer, visualizer, pyplot, files, out>>

\* ------------------------------------------------------------------ bounds
\* Largest number of rows of a dataset handed to segment_rfm.
MaxRows == 4
\* Largest number of rows / columns of a dataset handed to profile,
\* correlation and generate_insights.
MaxPRows == 2
MaxPCols == 2

\* The missing value (float NaN, None in an object column).
NaN == -1

\* The rows <<recency, frequency, monetary>> a dataset handed to
\* segment_rfm is made of: the complete rows over two raw values, a row
\* whose recency is missing and a row whose frequency is missing.  Frequency
\* and monetary are scored by the same code; of the two rows <<2, 1, 2>> and
\* <<2, 2, 1>>, which are each other's image under that exchange, one is
\* kept.
CustomerRows ==
  (({1, 2} \X {1, 2} \X {1, 2}) \ {<<2, 2, 1>>}) \cup {<<NaN, 1, 1>>, <<1, NaN, 1>>}
\* n_segments arguments: 1, the default 4, and one beyond the label table.
NSegments == {1, 4, 8}

\* A sequence given as a function on 1..n, as the tuple it is equal to.
Materialize(f) == f \o <<>>

\* ---------------------------------------------------------------- datasets
Column(name, dtype, cells) == [name |-> name, dtype |-> dtype, cells |-> cells]

DataFrame(nrows, cols) == [nrows |-> nrows, cols |-> cols]

ColumnNames(d) == {d.cols[i].name : i \in 1..Len(d.cols)}

\* df[col]: the cells of the column called col.
Col(d, col) ==
  d.cols[CHOOSE i \in 1..Len(d.cols) : d.cols[i].name = col].cells

\* ------------------------------------------------------- pandas primitives
IsNaN(x) == x = NaN

\* Positions of the non-missing cells of a series (dropna).
Valid(x) == {i \in 1..Len(x) : ~IsNaN(x[i])}

\* Arithmetic on cells: NaN propagates.
Add(a, b) == IF IsNaN(a) \/ IsNaN(b) THEN NaN ELSE a + b

Sub(a, b) == IF IsNaN(a) \/ IsNaN(b) THEN NaN ELSE a - b

SetMin(S) == CHOOSE v \in S : \A w \in S : v <= w

SetMax(S) == CHOOSE v \in S : \A w \in S : v >= w

\* Series.rank(method='first'): ties are ranked in order of appearance;
\* a missing cell has no rank.
RankFirst(x) ==
  LET valid == Valid(x)
  IN  Materialize([i \in 1..Len(x) |->
        IF IsNaN(x[i]) THEN NaN
        ELSE 1 + Cardinality({j \in valid :
                                x[j] < x[i] \/ (x[j] = x[i] /\ j < i)})])

\* The non-missing cells of x in ascending order.
SortedValid(x) ==
  LET rk == RankFirst(x)
      count == Cardinality(Valid(x))
  IN  Materialize([k \in 1..count |->
                     x[CHOOSE i \in 1..Len(x) : rk[i] = k]])

\* Series.quantile(k/q) with linear interpolation, multiplied by q:
\* position k*(m-1)/q in s, the sorted non-missing cells.
QuantileTimesQ(s, k, q) ==
  LET h   == k * (Len(s) - 1)
      lo  == h \div q
      rem == h % q
  IN  IF rem = 0
        THEN q * s[lo + 1]
        ELSE q * s[lo + 1] + rem * (s[lo + 2] - s[lo + 1])

\* The distinct quantile edges of qcut, each multiplied by q.
QuantileEdges(s, q) == {QuantileTimesQ(s, k, q) : k \in 0..q}

\* pandas.qcut(x, q, labels=False, duplicates='drop').  The q+1 quantile
\* edges are deduplicated unless there are exactly two of them; a cell is
\* put in the interval (edge[b], edge[b+1]] with the lowest edge included;
\* a cell that falls at index 0 or at len(edges) has no bucket.
QCutDrop(x, q) ==
  IF Valid(x) = {} THEN Materialize([i \in 1..Len(x) |-> NaN])
  ELSE
    LET s      == SortedValid(x)
        edges  == QuantileEdges(s, q)
        nedges == IF q + 1 = 2 THEN 2 ELSE Cardinality(edges)
        lowest == q * s[1]
    IN  Materialize([i \in 1..Len(x) |->
           IF IsNaN(x[i]) THEN NaN
           ELSE LET qx  == q * x[i]
                    ids == IF qx = lowest THEN 1
                           ELSE Cardinality({e \in edges : e < qx})
                IN  IF ids = nedges \/ ids = 0 THEN NaN ELSE ids - 1])

\* A re-binning by quantiles of the scores instead of by equal width.
CutBinsQuantile(x, n, fp) == QCutDrop(x, n)

\* pandas.cut(x, bins=n, labels=False): n equal-width intervals over
\* [min, max] of the non-missing cells, the lowest edge moved down by 0.1% of
\* the range.  It raises on an empty series and, duplicates='raise', when
\* the n+1 edges are not distinct (all cells missing) unless there are
\* exactly two edges.
CutRaises(x, n) ==
  \/ Len(x) = 0
  \/ (Valid(x) = {} /\ n + 1 # 2)

\* When min = max the edges run from min - 0.1% to max + 0.1% and the cells
\* sit in the middle: for an even n on the middle edge itself, where float
\* rounding puts them on either side.
CutIsRoundingCase(x, n) ==
  /\ Valid(x) # {}
  /\ n % 2 = 0
  /\ \A i, j \in Valid(x) : x[i] = x[j]

\* A binning in which float rounding decides row by row.
CutBinsRowRounding(x, n, fp) ==
  IF Valid(x) = {} THEN Materialize([i \in 1..Len(x) |-> NaN])
  ELSE
    LET cells == {x[i] : i \in Valid(x)}
        mn == SetMin(cells)
        mx == SetMax(cells)
    IN  Materialize([i \in 1..Len(x) |->
           IF IsNaN(x[i]) THEN NaN
           ELSE IF mn = mx
             THEN (IF n % 2 = 1 THEN (n - 1) \div 2
                   ELSE (n \div 2) - 1 + (IF i % 2 = 1 THEN fp ELSE 0))
             ELSE Cardinality({k \in 1..n :
                                 n * mn + k * (mx - mn) < n * x[i]})])

\* Equal-width bins over the fixed range [0, 3 * (n - 1)] of the scores.
CutBinsFixedRange(x, n, fp) ==
  Materialize([i \in 1..Len(x) |->
     IF IsNaN(x[i]) THEN NaN
     ELSE Cardinality({k \in 1..(n - 1) : k * 3 * (n - 1) < n * x[i]})])

CutBins(x, n, fp) ==
  IF Valid(x) = {} THEN Materialize([i \in 1..Len(x) |-> NaN])
  ELSE
    LET cells == {x[i] : i \in Valid(x)}
        mn == SetMin(cells)
        mx == SetMax(cells)
    IN  Materialize([i \in 1..Len(x) |->
           IF IsNaN(x[i]) THEN NaN
           ELSE IF mn = mx
             THEN (IF n % 2 = 1 THEN (n - 1) \div 2 ELSE (n \div 2) - 1 + fp)
             ELSE Cardinality({k \in 1..n :
                                 n * mn + k * (mx - mn) < n * x[i]})])

\* ------------------------------------------------------------ segment_rfm
\* A label table keyed from 1 instead of 0.
SegmentLabelShifted(x) ==
  LET key == IF IsNaN(x) THEN NaN ELSE IF 4 < x THEN 4 ELSE x
  IN  CASE key = 1 -> "Lost"
        [] key = 2 -> "At Risk"
        [] key = 3 -> "Potential Loyalist"
        [] key = 4 -> "Loyal Customer"
        [] OTHER   -> "Other"

\* segment_labels.get(x, 'Other'): the lookup without min(x, 4).
SegmentLabelUncapped(x) ==
  CASE x = 0 -> "Lost"
    [] x = 1 -> "At Risk"
    [] x = 2 -> "Potential Loyalist"
    [] x = 3 -> "Loyal Customer"
    [] x = 4 -> "Champion"
    [] OTHER -> "Other"

\* segment_labels.get(min(x, 4), 'Other'); min(nan, 4) is nan, which is no
\* key of the table.
SegmentLabel(x) ==
  LET key == IF IsNaN(x) THEN NaN ELSE IF 4 < x THEN 4 ELSE x
  IN  CASE key = 0 -> "Lost"
        [] key = 1 -> "At Risk"
        [] key = 2 -> "Potential Loyalist"
        [] key = 3 -> "Loyal Customer"
        [] key = 4 -> "Champion"
        [] OTHER   -> "Other"

RQuintiles(d, r_col, n_segments) == QCutDrop(Col(d, r_col), n_segments)

\* Frequency buckets cut from the raw values, as for recency.
FQuintilesNoRank(d, f_col, n_segments) == QCutDrop(Col(d, f_col), n_segments)

FQuintiles(d, f_col, n_segments) == QCutDrop(RankFirst(Col(d, f_col)), n_segments)

MQuintiles(d, m_col, n_segments) == QCutDrop(RankFirst(Col(d, m_col)), n_segments)

\* A recency score that is not inverted: r_score = r_quintiles.
RScoreNotInverted(r_quintiles, n_segments) == r_quintiles

\* An inversion that is off by one: r_score = n_segments - r_quintiles.
RScoreOffByOne(r_quintiles, n_segments) ==
  Materialize([i \in 1..Len(r_quintiles) |-> Sub(n_segments, r_quintiles[i])])

\* r_score = n_segments - 1 - r_quintiles
RScore(r_quintiles, n_segments) ==
  Materialize([i \in 1..Len(r_quintiles) |-> Sub(n_segments - 1, r_quintiles[i])])

\* rfm_score = r_score + f_score + m_score
RfmScore(r_score, f_score, m_score) ==
  Materialize([i \in 1..Len(r_score) |->
                 Add(Add(r_score[i], f_score[i]), m_score[i])])

\* A lookup with the label of the next bin.
MapLabelsNext(segment_bins) ==
  Materialize([i \in 1..Len(segment_bins) |->
                 SegmentLabel(Add(segment_bins[i], 1))])

\* segment_bins.map(lambda x: segment_labels.get(min(x, 4), 'Other'))
MapLabels(segment_bins) ==
  Materialize([i \in 1..Len(segment_bins) |-> SegmentLabel(segment_bins[i])])

\* The message of an exception: its text with the column name it
\* interpolates.  No message of the analyzer names the operation.
Message(text, column) == [text |-> text, column |-> column, operation |-> ""]

NoMessage == Message("", "")

\* KeyError(key), raised by df[key] for a column the dataset lacks.
KeyErrorMessage(key) == Message("", key)

RfmResult(status, error, message, n, r_quintiles, r_score, f_score, m_score, rfm_score, segment_bins, labels) ==
  [op |-> "segment_rfm", status |-> status, error |-> error,
   message |-> message, n |-> n,
   r_quintiles |-> r_quintiles, r_score |-> r_score, f_score |-> f_score, m_score |-> m_score,
   rfm_score |-> rfm_score, segment_bins |-> segment_bins, labels |-> labels]

\* The whole call: the set of results it can have (one, or two where float
\* rounding decides).  A column name that the dataset lacks fails in df[col]
\* with KeyError; pandas.cut may raise ValueError; otherwise the labels.
SegmentRfm(d, r_col, f_col, m_col, n_segments) ==
  IF ~({r_col, f_col, m_col} \subseteq ColumnNames(d))
    THEN LET absent == IF r_col \notin ColumnNames(d) THEN r_col
                       ELSE IF f_col \notin ColumnNames(d) THEN f_col
                       ELSE m_col
         IN  {RfmResult("raise", "KeyError", KeyErrorMessage(absent), n_segments,
                        <<>>, <<>>, <<>>, <<>>, <<>>, <<>>, <<>>)}
  ELSE
    LET r_quintiles == RQuintiles(d, r_col, n_segments)
        r_score   == RScore(r_quintiles, n_segments)
        f_score   == FQuintiles(d, f_col, n_segments)
        m_score   == MQuintiles(d, m_col, n_segments)
        rfm_score == RfmScore(r_score, f_score, m_score)
    IN  IF CutRaises(rfm_score, n_segments)
          THEN {RfmResult("raise", "ValueError",
                          Message(IF Len(rfm_score) = 0
                                    THEN "Cannot cut empty array"
                                    ELSE "Bin edges must be unique", ""),
                          n_segments, r_quintiles,
                          r_score, f_score, m_score, rfm_score, <<>>, <<>>)}
          ELSE
            { LET segment_bins == CutBins(rfm_score, n_segments, fp)
              IN  RfmResult("ok", "", NoMessage, n_segments, r_quintiles, r_score,
                            f_score, m_score, rfm_score, segment_bins, MapLabels(segment_bins)) :
                fp \in IF CutIsRoundingCase(rfm_score, n_segments)
                         THEN {0, 1} ELSE {0} }

\* No call has been made, or its result has been dropped.
NoCall == [op |-> "none", status |-> "none"]

\* ------------------------------------------------------------ the Analyzer
\* The constructor argument config: None, or a dict given as the set of its
\* <<key, value>> items.
NoConfig == [none |-> TRUE, items |-> {}]

Config(items) == [none |-> FALSE, items |-> items]

\* dict.get(key, default)
Get(items, key, default) ==
  IF \E kv \in items : kv[1] = key
    THEN (CHOOSE kv \in items : kv[1] = key)[2]
    ELSE default

\* Analyzer.__init__: self.config = config or {}, then decimal_places.
NewAnalyzer(config) ==
  LET items == IF config.none THEN {} ELSE config.items
  IN  [config |-> items,
       decimal_places |-> Get(items, "decimal_places", 2)]

\* ---------------------------------------------------------- the Visualizer
\* Visualizer.__init__: no figure is current.  current_fig is 0 for None
\* and otherwise the figure, named by its position among the figures made.
NewVisualizer(config) ==
  LET items == IF config.none THEN {} ELSE config.items
  IN  [config |-> items,
       figsize |-> Get(items, "figure_size", <<10, 6>>),
       dpi |-> Get(items, "dpi", 150),
       palette |-> Get(items, "color_palette", "viridis"),
       current_fig |-> 0]

\* matplotlib.pyplot when the module is imported: no figure has been made
\* (figs: every Figure object made so far; managers: the figures pyplot
\* holds open, the active one last).
NoFigures == [figs |-> <<>>, managers |-> <<>>]

\* A file system without files: the set of paths that exist, and what each
\* holds.
NoFiles == [p \in {} |-> <<>>]

\* A method that leaves decimal_places = 0 behind on the object.
SelfAfterCallStored(self) == [self EXCEPT !.decimal_places = 0]

\* The Analyzer object when one of its methods returns: the methods read
\* self.decimal_places and call self.profile, self.correlation,
\* self._generate_summary and self._calculate_trend, and none of them
\* assigns an attribute of self.
SelfAfterCall(self) == self

\* ---------------------------------------------------------------- profile
\* select_dtypes(include=[np.number]).columns, in column order.
NumericCols(d) == SelectSeq(d.cols, LAMBDA c : c.dtype = "number")

\* select_dtypes(include=['object', 'category']).columns, in column order.
CatCols(d) == SelectSeq(d.cols, LAMBDA c : c.dtype \in {"object", "category"})

\* df.isnull().sum(): the number of missing cells of each column.
Missing(d) ==
  [i \in 1..Len(d.cols) |->
     Cardinality({k \in 1..d.nrows : IsNaN(d.cols[i].cells[k])})]

RECURSIVE SumSeq(_)
SumSeq(s) == IF Len(s) = 0 THEN 0 ELSE Head(s) + SumSeq(Tail(s))

\* (missing / row_count * 100).round(2), in hundredths of a percent; 0/0 is
\* NaN when the dataset has no rows.
MissingPct(missing, row_count) ==
  IF row_count = 0 THEN NaN
  ELSE (missing * 20000 + row_count) \div (2 * row_count)

\* missing_summary: total_missing, and the two dictionaries keyed by the
\* names of the columns whose count (percentage) is greater than 0.
MissingSummary(d) ==
  LET missing == Missing(d)
      pct     == [i \in 1..Len(d.cols) |-> MissingPct(missing[i], d.nrows)]
      withMissing == {i \in 1..Len(d.cols) : missing[i] > 0}
      withPct     == {i \in 1..Len(d.cols) : pct[i] > 0}
  IN  [total_missing |-> SumSeq(Materialize(missing)),
       columns_with_missing |->
         {<<d.cols[i].name, missing[i]>> : i \in withMissing},
       missing_percentages |->
         {<<d.cols[i].name, pct[i]>> : i \in withPct}]

\* _generate_summary: the lines of the text, without the memory figure.
GenerateSummary(d, rows, cols, missing) ==
  << [line |-> "shape", rows |-> rows, cols |-> cols, names |-> <<>>],
     [line |-> "memory", rows |-> 0, cols |-> 0, names |-> <<>>],
     IF missing.total_missing > 0
       THEN [line |-> "missing", rows |-> missing.total_missing,
             cols |-> Cardinality(missing.columns_with_missing), names |-> <<>>]
       ELSE [line |-> "no missing", rows |-> 0, cols |-> 0, names |-> <<>>] >>
  \o (IF Len(NumericCols(d)) > 0
        THEN << [line |-> "numeric", rows |-> 0, cols |-> 0,
                 names |-> [i \in 1..Len(NumericCols(d)) |-> NumericCols(d)[i].name]] >>
        ELSE <<>>)
  \o (IF Len(CatCols(d)) > 0
        THEN << [line |-> "categorical", rows |-> 0, cols |-> 0,
                 names |-> [i \in 1..Len(CatCols(d)) |-> CatCols(d)[i].name]] >>
        ELSE <<>>)

\* The two counts exchanged: row_count = len(df.columns).
RowCountSwapped(d) == Len(d.cols)

\* row_count = len(df)
RowCount(d) == d.nrows

\* column_count = len(df.columns)
ColumnCount(d) == Len(d.cols)

\* Analyzer.profile.  numeric_stats and categorical_stats are kept as the
\* names of the columns they describe (None when there is none), and
\* numeric_stats with the number of decimals describe() is rounded to; the
\* figures of describe() and value_counts() are not part of the model.
Profile(self, d) ==
  LET row_count       == RowCount(d)
      column_count    == ColumnCount(d)
      missing_summary == MissingSummary(d)
  IN  [op |-> "profile", status |-> "ok",
       row_count |-> row_count,
       column_count |-> column_count,
       dtypes |-> {<<d.cols[i].name, d.cols[i].dtype>> : i \in 1..Len(d.cols)},
       missing_summary |-> missing_summary,
       numeric_stats |->
         IF Len(NumericCols(d)) > 0
           THEN [columns |-> {NumericCols(d)[i].name : i \in 1..Len(NumericCols(d))},
                 round |-> self.decimal_places]
           ELSE [columns |-> {"None"}, round |-> 0],
       categorical_stats |->
         IF Len(CatCols(d)) > 0
           THEN {CatCols(d)[i].name : i \in 1..Len(CatCols(d))}
           ELSE {"None"},
       summary |-> GenerateSummary(d, row_count, column_count, missing_summary)]

\* ------------------------------------------------------------ correlation
RECURSIVE Total(_, _)
\* The sum of f[i] over the positions i of I.
Total(f, I) ==
  IF I = {} THEN 0
  ELSE LET i == CHOOSE j \in I : TRUE IN f[i] + Total(f, I \ {i})

\* DataFrame.corr(method='pearson', min_periods=1) for one pair of columns,
\* over the rows where both cells are present.  The coefficient is
\* num / sqrt(den); it is NaN when a variance is 0 or no row is complete.
\* (Deviations are taken from count * mean, which scales num and sqrt(den)
\* alike.)
Pearson(x, y) ==
  LET I  == Valid(x) \cap Valid(y)
      c  == Cardinality(I)
      sx == Total(x, I)
      sy == Total(y, I)
      dx == [i \in 1..Len(x) |-> c * x[i] - sx]
      dy == [i \in 1..Len(y) |-> c * y[i] - sy]
      num == Total([i \in 1..Len(x) |-> dx[i] * dy[i]], I)
      den == Total([i \in 1..Len(x) |-> dx[i] * dx[i]], I)
               * Total([i \in 1..Len(y) |-> dy[i] * dy[i]], I)
  IN  IF c = 0 \/ den = 0 THEN [nan |-> TRUE, num |-> 0, den |-> 1]
      ELSE [nan |-> FALSE, num |-> num, den |-> den]

\* numeric_df.empty taken as 'no numeric column' alone.
CorrelationRaisesNoColumns(d) == Len(NumericCols(d)) = 0

\* Analyzer.correlation: raises ValueError when numeric_df.empty, that is
\* when the dataset has no numeric column or no row; otherwise the matrix,
\* as the function from pairs of numeric column positions to coefficients.
CorrelationRaises(d) == Len(NumericCols(d)) = 0 \/ d.nrows = 0

CorrMatrix(d) ==
  LET nc == NumericCols(d)
  IN  [p \in (1..Len(nc)) \X (1..Len(nc)) |->
         Pearson(nc[p[1]].cells, nc[p[2]].cells)]

Correlation(d) ==
  IF CorrelationRaises(d)
    THEN [op |-> "correlation", status |-> "raise", error |-> "ValueError",
          corr |-> <<>>]
    ELSE [op |-> "correlation", status |-> "ok", error |-> "",
          corr |-> CorrMatrix(d)]

\* ------------------------------------------------------ generate_insights
Insight(kind, col, col2, direction, value, value2) ==
  [kind |-> kind, col |-> col, col2 |-> col2, direction |-> direction,
   value |-> value, value2 |-> value2]

\* (4 * s^2 * a) \div b, computed as 2s * ((2s * a) \div b) plus
\* (2s * ((2s * a) % b)) \div b to stay within 32-bit integers.
FloorScaled(a, b, s) ==
  LET t == 2 * s * a
  IN  2 * s * (t \div b) + (2 * s * (t % b)) \div b

RECURSIVE RoundSqrtIn(_, _, _, _, _)
\* The largest k in lo..hi with (2k-1)^2 * b <= 4 * s^2 * a (lo satisfies it);
\* the test divides by b to stay within 32-bit integers.
RoundSqrtIn(a, b, s, lo, hi) ==
  IF lo = hi THEN lo
  ELSE LET mid == (lo + hi + 1) \div 2
       IN  IF (2 * mid - 1) * (2 * mid - 1) <= FloorScaled(a, b, s)
             THEN RoundSqrtIn(a, b, s, mid, hi)
             ELSE RoundSqrtIn(a, b, s, lo, mid - 1)

\* s * sqrt(a / b) rounded to the nearest integer (a >= 0, b > 0).
RoundSqrt(a, b, s, hi) == RoundSqrtIn(a, b, s, 0, hi)

\* cv = (std / mean * 100) if mean != 0 else 0, and the test cv > 50.
\* With c values of sum sm and sum of squares sq: mean = sm/c and
\* std^2 = (c*sq - sm^2) / (c*(c-1)); std is NaN for fewer than 2 values
\* and mean for none, and a NaN cv is not greater than 50.
CvDefined(x) ==
  LET c == Cardinality(Valid(x)) IN c >= 2 /\ Total(x, Valid(x)) # 0

HighVariability(x) ==
  LET c  == Cardinality(Valid(x))
      sm == Total(x, Valid(x))
      sq == Total([i \in 1..Len(x) |-> x[i] * x[i]], Valid(x))
  IN  /\ CvDefined(x)
      /\ sm > 0
      /\ 4 * c * (c * sq - sm * sm) > (c - 1) * sm * sm

\* cv, in tenths of a percent, as f"{cv:.1f}" shows it.
CvTenths(x) ==
  LET c  == Cardinality(Valid(x))
      sm == Total(x, Valid(x))
      sq == Total([i \in 1..Len(x) |-> x[i] * x[i]], Valid(x))
  IN  RoundSqrt(c * (c * sq - sm * sm), (c - 1) * sm * sm, 1000, 20000)

\* cv is exactly 50: std / mean = 1/2.
CvOnThreshold(x) ==
  LET c  == Cardinality(Valid(x))
      sm == Total(x, Valid(x))
      sq == Total([i \in 1..Len(x) |-> x[i] * x[i]], Valid(x))
  IN  /\ CvDefined(x)
      /\ sm > 0
      /\ 4 * c * (c * sq - sm * sm) = (c - 1) * sm * sm

\* The float64 computation of mean, std and cv on the column whose cells are
\* x[i] / unit is exact when the cells and their mean are binary fractions:
\* with cv = 50 the variance is then mean^2 / 4, its square root is exact and
\* std / mean * 100 is 50.0.
FloatExact(x, unit) ==
  /\ unit \in {1, 2, 4, 8}
  /\ Total(x, Valid(x)) % Cardinality(Valid(x)) = 0

\* The outcomes of the test cv > 50 (lines 285-289) on the column whose
\* cells are x[i] / unit.  Away from 50 the rounding of float64 does not
\* matter; a cv of exactly 50 computed with rounding comes out as 50.0 or
\* next to it on either side.
CvTest(x, unit) ==
  IF CvOnThreshold(x) /\ ~FloatExact(x, unit)
    THEN {TRUE, FALSE}
    ELSE {HighVariability(x)}

\* Series.skew(): NaN for fewer than 3 values, 0 when the variance is 0,
\* else c*sqrt(c-1)/(c-2) * m3 / m2^1.5 over the deviations from the mean.
\* The operator gives the sign of the skew when |skew| > 1, else 0.
SkewDirection(x) ==
  LET c  == Cardinality(Valid(x))
      sm == Total(x, Valid(x))
      d  == [i \in 1..Len(x) |-> c * x[i] - sm]
      m2 == Total([i \in 1..Len(x) |-> d[i] * d[i]], Valid(x))
      m3 == Total([i \in 1..Len(x) |-> d[i] * d[i] * d[i]], Valid(x))
  IN  IF c < 3 \/ m2 = 0 THEN 0
      ELSE IF c * c * (c - 1) * m3 * m3 > (c - 2) * (c - 2) * m2 * m2 * m2
        THEN (IF m3 > 0 THEN 1 ELSE -1)
        ELSE 0

\* The insights of one numeric column with the two directions exchanged.
NumericInsightsSwapped(col) ==
  (IF HighVariability(col.cells)
     THEN << Insight("variability", col.name, "", "", CvTenths(col.cells), 0) >>
     ELSE <<>>)
  \o (IF SkewDirection(col.cells) # 0
        THEN << Insight("skew", col.name, "",
                        IF SkewDirection(col.cells) > 0 THEN "left" ELSE "right",
                        0, 0) >>
        ELSE <<>>)

\* The insights of one numeric column (lines 285-295).
NumericInsights(col) ==
  (IF HighVariability(col.cells)
     THEN << Insight("variability", col.name, "", "", CvTenths(col.cells), 0) >>
     ELSE <<>>)
  \o (IF SkewDirection(col.cells) # 0
        THEN << Insight("skew", col.name, "",
                        IF SkewDirection(col.cells) > 0 THEN "right" ELSE "left",
                        0, 0) >>
        ELSE <<>>)

RECURSIVE ConcatInsightsNoLimit(_, _)
\* The loop over every numeric column: for col in numeric_cols.
ConcatInsightsNoLimit(cols, limit) ==
  IF Len(cols) = 0 THEN <<>>
  ELSE NumericInsights(Head(cols)) \o ConcatInsightsNoLimit(Tail(cols), limit)

RECURSIVE ConcatInsights(_, _)
\* for col in numeric_cols[:limit]: the insights of each, in order.
ConcatInsights(cols, limit) ==
  IF Len(cols) = 0 \/ limit = 0 THEN <<>>
  ELSE NumericInsights(Head(cols)) \o ConcatInsights(Tail(cols), limit - 1)

\* corr_pairs: (corr.iloc[i, j], columns[i], columns[j]) for i, then j > i.
RECURSIVE PairsFrom(_, _, _)
PairsFrom(n, i, j) ==
  IF i > n THEN <<>>
  ELSE IF j > n THEN PairsFrom(n, i + 1, i + 2)
  ELSE << <<i, j>> >> \o PairsFrom(n, i, j + 1)

CorrPairs(d) == PairsFrom(Len(NumericCols(d)), 1, 2)

\* |r1| > |r2| for two coefficients that are not NaN.
AbsGreater(r1, r2) == r1.num * r1.num * r2.den > r2.num * r2.num * r1.den

\* key(a) < key(b) for the sort keys abs(r): false when either is NaN.
KeyLess(r1, r2) == ~r1.nan /\ ~r2.nan /\ AbsGreater(r2, r1)

ReverseSeq(s) == Materialize([k \in 1..Len(s) |-> s[Len(s) + 1 - k]])

\* list.sort, count_run: the length of the run the list starts with, which
\* is strictly descending when desc and non-descending otherwise.
CountRun(s, corr, desc) ==
  LET inRun(k) == KeyLess(corr[s[k]], corr[s[k - 1]]) <=> desc
  IN  CHOOSE n \in 2..Len(s) :
        /\ \A k \in 2..n : inRun(k)
        /\ n = Len(s) \/ ~inRun(n + 1)

RECURSIVE BinarySearch(_, _, _, _, _)
\* list.sort, binarysort: the place of pivot among s[1..r], found with
\* pivot < s[p] alone (l and r count from 0).
BinarySearch(s, corr, pivot, l, r) ==
  IF l >= r THEN l
  ELSE LET p == l + ((r - l) \div 2)
       IN  IF KeyLess(corr[pivot], corr[s[p + 1]])
             THEN BinarySearch(s, corr, pivot, l, p)
             ELSE BinarySearch(s, corr, pivot, p + 1, r)

RECURSIVE BinarySort(_, _, _)
\* list.sort, binarysort: s[1..start] is sorted; insert the others in turn.
BinarySort(s, corr, start) ==
  IF start >= Len(s) THEN s
  ELSE LET pivot == s[start + 1]
           l == BinarySearch(s, corr, pivot, 0, start)
       IN  BinarySort(SubSeq(s, 1, l) \o << pivot >> \o SubSeq(s, l + 1, start)
                        \o SubSeq(s, start + 2, Len(s)),
                      corr, start + 1)

\* corr_pairs.sort(reverse=True, key=lambda x: abs(x[0])): the list is
\* reversed, sorted ascending by a stable binary insertion sort (the lists
\* here are shorter than 64), and reversed again.  Comparisons with a NaN
\* key are false, so such a list need not end up in descending order.
SortPairs(pairs, corr) ==
  IF Len(pairs) < 2 THEN pairs
  ELSE LET r    == ReverseSeq(pairs)
           desc == KeyLess(corr[r[2]], corr[r[1]])
           n    == CountRun(r, corr, desc)
           run  == IF desc
                     THEN ReverseSeq(SubSeq(r, 1, n)) \o SubSeq(r, n + 1, Len(r))
                     ELSE r
       IN  ReverseSeq(BinarySort(run, corr, n))

\* top_corr = corr_pairs[0]
TopCorr(pairs, corr) == SortPairs(pairs, corr)[1]

\* abs(top_corr[0]) > 0.7
StrongCorr(r) == ~r.nan /\ 100 * r.num * r.num > 49 * r.den

\* |r| in hundredths, as f"{r:.2f}" shows it.
CorrHundredths(r) == RoundSqrt(r.num * r.num, r.den, 100, 100)

CorrInsight(d, p, r) ==
  IF StrongCorr(r)
    THEN << Insight("correlation", NumericCols(d)[p[1]].name,
                    NumericCols(d)[p[2]].name,
                    IF r.num > 0 THEN "positive" ELSE "negative",
                    CorrHundredths(r), 0) >>
    ELSE <<>>

\* The number of missing cells reported in place of the number of columns.
MissingColsTotal(profile) == profile.missing_summary.total_missing

\* missing_cols = len(profile.missing_summary['columns_with_missing'])
MissingCols(profile) ==
  Cardinality(profile.missing_summary.columns_with_missing)

\* The insights emitted before the correlation block (lines 271-295).
BaseInsights(self, d) ==
  LET profile == Profile(self, d)
  IN  << Insight("shape", "", "", "", profile.row_count, profile.column_count) >>
      \o (IF profile.missing_summary.total_missing > 0
            THEN << Insight("missing", "", "", "", MissingCols(profile), 0) >>
            ELSE <<>>)
      \o ConcatInsights(NumericCols(d), 3)

InsightsResult(status, error, insights) ==
  [op |-> "generate_insights", status |-> status, error |-> error,
   insights |-> insights]

\* generate_insights calling self.correlation(df) whatever the number of
\* numeric columns.
GenerateInsightsUnguarded(self, d) ==
  LET insights == BaseInsights(self, d)
  IN  IF CorrelationRaises(d)
        THEN {InsightsResult("raise", "ValueError", <<>>)}
        ELSE IF Len(NumericCols(d)) >= 2
          THEN LET corr == CorrMatrix(d)
                   p    == TopCorr(CorrPairs(d), corr)
               IN  {InsightsResult("ok", "",
                      insights \o CorrInsight(d, p, corr[p]))}
          ELSE {InsightsResult("ok", "", insights)}

\* Analyzer.generate_insights: the set of results the call can have.  With
\* two or more numeric columns it calls self.correlation(df), whose
\* ValueError is not caught.
GenerateInsights(self, d) ==
  LET insights == BaseInsights(self, d)
  IN  IF Len(NumericCols(d)) >= 2
        THEN IF CorrelationRaises(d)
               THEN {InsightsResult("raise", "ValueError", <<>>)}
               ELSE LET corr == CorrMatrix(d)
                        p    == TopCorr(CorrPairs(d), corr)
                    IN  {InsightsResult("ok", "",
                           insights \o CorrInsight(d, p, corr[p]))}
        ELSE {InsightsResult("ok", "", insights)}

\* The scenario of the specification: recency, frequency, monetary.
ScenarioFrame ==
  DataFrame(4, << Column("recency", "number", <<1, 5, 10, 50>>),
                  Column("frequency", "number", <<10, 8, 3, 1>>),
                  Column("monetary", "number", <<500, 300, 100, 20>>) >>)

RfmFrame(rows) ==
  DataFrame(Len(rows),
            << Column("recency", "number", Materialize([i \in 1..Len(rows) |-> rows[i][1]])),
               Column("frequency", "number", Materialize([i \in 1..Len(rows) |-> rows[i][2]])),
               Column("monetary", "number", Materialize([i \in 1..Len(rows) |-> rows[i][3]])) >>)

\* Every dataset of up to MaxRows customers, or the scenario.
InitRFM ==
  /\ \/ \E m \in 0..MaxRows : \E rows \in [1..m -> CustomerRows] :
          df = RfmFrame(rows)
     \/ df = ScenarioFrame
  /\ analyzer = NewAnalyzer(NoConfig)
  /\ visualizer = NewVisualizer(NoConfig)
  /\ pyplot = NoFigures
  /\ files = NoFiles
  /\ out = NoCall

\* analyzer.segment_rfm(df, 'recency', 'frequency', 'monetary', n_segments)
CallSegmentRfm ==
  /\ out = NoCall
  /\ \E n_segments \in NSegments :
       out' \in SegmentRfm(df, "recency", "frequency", "monetary", n_segments)
  /\ analyzer' = SelfAfterCall(analyzer)
  /\ UNCHANGED df
  /\ UNCHANGED <<visualizer, pyplot, files>>

\* The caller drops the result; the next call starts from the dataset alone.
Discard ==
  /\ out # NoCall
  /\ out' = NoCall
  /\ UNCHANGED <<df, analyzer>>
  /\ UNCHANGED <<visualizer, pyplot, files>>

NextRFM == CallSegmentRfm \/ Discard

SpecRFM == InitRFM /\ [][NextRFM]_vars

\* ------------------------------------------------- profiling specification
NumberCells == {NaN, 1, 3}
ObjectCells == {NaN, 1}
ColumnLabels == <<"a", "b", "c", "d", "e", "f">>

\* The cells a column of the given dtype can hold over m rows.
CellChoices(dtype, m) ==
  [1..m -> IF dtype = "number" THEN NumberCells ELSE ObjectCells]

\* A column before it is given its name: its dtype and its cells.
ColumnChoices(m) ==
  UNION { { <<dtype, Materialize(cells)>> : cells \in CellChoices(dtype, m) } :
          dtype \in {"number", "object"} }

ProfileFrame(m, cs) ==
  DataFrame(m, Materialize([i \in 1..Len(cs) |->
                 Column(ColumnLabels[i], cs[i][1], cs[i][2])]))

\* Every dataset of up to MaxPRows rows and MaxPCols columns, each column
\* numeric or object, named by its position.
InitInsights ==
  /\ \E m \in 0..MaxPRows : \E n \in 0..MaxPCols :
       \E cs \in [1..n -> ColumnChoices(m)] : df = ProfileFrame(m, cs)
  /\ analyzer = NewAnalyzer(NoConfig)
  /\ visualizer = NewVisualizer(NoConfig)
  /\ pyplot = NoFigures
  /\ files = NoFiles
  /\ out = NoCall

\* analyzer.profile(df)
CallProfile ==
  /\ out = NoCall
  /\ out' = Profile(analyzer, df)
  /\ analyzer' = SelfAfterCall(analyzer)
  /\ UNCHANGED df
  /\ UNCHANGED <<visualizer, pyplot, files>>

\* analyzer.correlation(df)
CallCorrelation ==
  /\ out = NoCall
  /\ out' = Correlation(df)
  /\ analyzer' = SelfAfterCall(analyzer)
  /\ UNCHANGED df
  /\ UNCHANGED <<visualizer, pyplot, files>>

\* analyzer.generate_insights(df)
CallGenerateInsights ==
  /\ out = NoCall
  /\ out' \in GenerateInsights(analyzer, df)
  /\ analyzer' = SelfAfterCall(analyzer)
  /\ UNCHANGED df
  /\ UNCHANGED <<visualizer, pyplot, files>>

NextInsights == CallProfile \/ CallCorrelation \/ CallGenerateInsights \/ Discard

SpecInsights == InitInsights /\ [][NextInsights]_vars

\* ------------------------------------------------ statistics specification
\* Largest number of columns of a dataset whose statistics are examined.
MaxSCols == 4

\* Columns of three rows that differ in the statistics generate_insights
\* looks at: CV exactly 50 and no skew; CV above 50 and right skew; CV above
\* 50 and a skew below 1; mean 0; negative mean with left skew; a missing
\* cell; a constant; and a text column.
StatColumns ==
  { <<"number", <<1, 2, 3>>>>,
    <<"number", <<1, 1, 3>>>>,
    <<"number", <<4, 2, 1>>>>,
    <<"number", <<-3, 0, 3>>>>,
    <<"number", <<-5, -2, -2>>>>,
    <<"number", <<NaN, 1, 3>>>>,
    <<"number", <<2, 2, 2>>>>,
    <<"object", <<1, NaN, 1>>>> }

\* Every dataset of one to MaxSCols of these columns.
InitStats ==
  /\ \E n \in 1..MaxSCols : \E cs \in [1..n -> StatColumns] :
       df = ProfileFrame(Len(cs[1][2]), cs)
  /\ analyzer = NewAnalyzer(NoConfig)
  /\ visualizer = NewVisualizer(NoConfig)
  /\ pyplot = NoFigures
  /\ files = NoFiles
  /\ out = NoCall

NextStats == CallGenerateInsights \/ Discard

SpecStats == InitStats /\ [][NextStats]_vars

\* ----------------------------------------------------- scaling a column
\* Largest number of columns of a dataset whose columns are scaled.
MaxScaleCols == 2

\* Positive constants c = c[1] / c[2].
Scales == {<<2, 1>>, <<3, 1>>, <<1, 2>>, <<1, 10>>, <<3, 10>>}

\* df[col] * c, in units of 1 / c[2].
ScaleCells(x, c) ==
  Materialize([i \in 1..Len(x) |-> IF IsNaN(x[i]) THEN NaN ELSE c[1] * x[i]])

InitScale ==
  /\ \E n \in 1..MaxScaleCols : \E cs \in [1..n -> StatColumns] :
       df = ProfileFrame(Len(cs[1][2]), cs)
  /\ analyzer = NewAnalyzer(NoConfig)
  /\ visualizer = NewVisualizer(NoConfig)
  /\ pyplot = NoFigures
  /\ files = NoFiles
  /\ out = NoCall

\* The variability test of generate_insights on a numeric column of the
\* dataset and on the same column multiplied by c.
CallCvScaled ==
  /\ out = NoCall
  /\ \E i \in 1..Len(NumericCols(df)) : \E c \in Scales :
       \E before \in CvTest(NumericCols(df)[i].cells, 1) :
         \E after \in CvTest(ScaleCells(NumericCols(df)[i].cells, c), c[2]) :
           out' = [op |-> "cv_scaled", status |-> "ok",
                   col |-> NumericCols(df)[i].name, scale |-> c,
                   before |-> before, after |-> after]
  /\ analyzer' = SelfAfterCall(analyzer)
  /\ UNCHANGED df
  /\ UNCHANGED <<visualizer, pyplot, files>>

NextScale == CallCvScaled \/ Discard

SpecScale == InitScale /\ [][NextScale]_vars

\* ------------------------------------------------------ column-name text
\* A column name whose characters matter is the tuple of its characters.
UpperCase ==
  <<"A", "B", "C", "D", "E", "F", "G", "H", "I", "J", "K", "L", "M",
    "N", "O", "P", "Q", "R", "S", "T", "U", "V", "W", "X", "Y", "Z">>

LowerCase ==
  <<"a", "b", "c", "d", "e", "f", "g", "h", "i", "j", "k", "l", "m",
    "n", "o", "p", "q", "r", "s", "t", "u", "v", "w", "x", "y", "z">>

Digits == {"0", "1", "2", "3", "4", "5", "6", "7", "8", "9"}

Chars(s) == {s[i] : i \in 1..Len(s)}

\* str.lower() on one character.
LowerChar(ch) ==
  IF ch \in Chars(UpperCase)
    THEN LowerCase[CHOOSE i \in 1..Len(UpperCase) : UpperCase[i] = ch]
    ELSE ch

\* cols.str.lower()
StrLower(name) == Materialize([i \in 1..Len(name) |-> LowerChar(name[i])])

RECURSIVE StrReplace(_, _, _)
\* cols.str.replace(old, new) for a one-character old.
StrReplace(name, old, new) ==
  IF name = <<>> THEN <<>>
  ELSE (IF Head(name) = old THEN new ELSE <<Head(name)>>)
       \o StrReplace(Tail(name), old, new)

\* A character the regular expression \w matches.
IsWord(ch) == ch \in Chars(UpperCase) \cup Chars(LowerCase) \cup Digits \cup {"_"}

\* cols.str.replace(r'[^\w' + replace_spaces + ']', '', regex=True)
RemoveNonWord(name, replace_spaces) ==
  SelectSeq(name, LAMBDA ch : IsWord(ch) \/ ch \in Chars(replace_spaces))

\* The name standardize_columns gives a column.
StandardName(name, lowercase, replace_spaces) ==
  LET lowered  == IF lowercase THEN StrLower(name) ELSE name
      spaces   == StrReplace(lowered, " ", replace_spaces)
      hyphens  == StrReplace(spaces, "-", replace_spaces)
  IN  RemoveNonWord(hyphens, replace_spaces)

\* --------------------------------------------- the dataset inside a method
\* Inside a method the name df is bound to an object: the dataset the
\* caller passed (own = FALSE) or a frame the method made itself
\* (own = TRUE).  frame is the content of that object, caller the content
\* of the caller's dataset.
Bind(d) == [own |-> FALSE, frame |-> d, caller |-> d]

\* df = <a new frame>: the name is bound to a frame the method made.
Rebind(env, frame) == [own |-> TRUE, frame |-> frame, caller |-> env.caller]

\* df = df, the name still bound to the dataset the caller passed.
CopyAliased(env) == env

\* df = df.copy()
Copy(env) == Rebind(env, env.frame)

\* df[col] = ..., df.columns = ...: the object df is bound to is changed in
\* place; it is the caller's dataset unless the method made it.
Store(env, frame) ==
  [own |-> env.own, frame |-> frame,
   caller |-> IF env.own THEN env.caller ELSE frame]

\* ------------------------------------------------------- frame operations
\* The positions of rows from the last to the first.
PositionsDescending(rows) ==
  Materialize([k \in 1..Cardinality(rows) |->
    CHOOSE r \in rows : Cardinality({q \in rows : q > r}) = k - 1])

\* The positions of rows, a set of row positions, in ascending order.
Positions(rows) ==
  Materialize([k \in 1..Cardinality(rows) |->
    CHOOSE r \in rows : Cardinality({q \in rows : q < r}) = k - 1])

\* df.iloc[rows]: the rows at the given positions, in that order.
TakeRows(d, rows) ==
  DataFrame(Len(rows),
            Materialize([i \in 1..Len(d.cols) |->
              Column(d.cols[i].name, d.cols[i].dtype,
                     Materialize([k \in 1..Len(rows) |-> d.cols[i].cells[rows[k]]]))]))

\* The frame with the column called col replaced (df[col] = cells).
SetColumn(d, col, dtype, cells) ==
  DataFrame(d.nrows,
            Materialize([i \in 1..Len(d.cols) |->
              IF d.cols[i].name = col
                THEN Column(col, dtype, cells)
                ELSE d.cols[i]]))

\* The dtype of df[col].
DType(d, col) ==
  d.cols[CHOOSE i \in 1..Len(d.cols) : d.cols[i].name = col].dtype

\* Row r as the tuple of its cells.
Row(d, r) == Materialize([i \in 1..Len(d.cols) |-> d.cols[i].cells[r]])

\* Series.fillna(value)
FillNa(x, value) ==
  Materialize([i \in 1..Len(x) |-> IF IsNaN(x[i]) THEN value ELSE x[i]])

\* ------------------------------------------------------------ DataCleaner
\* What a method hands back: it returned (df is then the frame returned)
\* or it raised; env holds the caller's dataset as the method left it, and
\* warnings the columns a warning was printed for.
Returned(env, warnings) ==
  [status |-> "ok", error |-> "", message |-> NoMessage, env |-> env,
   warnings |-> warnings]

Raised(error, message, env, warnings) ==
  [status |-> "raise", error |-> error, message |-> message, env |-> env,
   warnings |-> warnings]

\* An optional argument: None, or the value given.
None == [none |-> TRUE, value |-> <<>>]

Some(value) == [none |-> FALSE, value |-> value]

\* DataCleaner.remove_duplicates with subset=None: DataFrame.drop_duplicates
\* keeps the first (keep='first') or the last (keep='last') of the rows
\* that are equal cell by cell, missing cells being equal to each other.
RemoveDuplicates(env, keep) ==
  LET d    == env.frame
      kept == {r \in 1..d.nrows :
                IF keep = "first"
                  THEN ~\E q \in 1..(r - 1) : Row(d, q) = Row(d, r)
                  ELSE ~\E q \in (r + 1)..d.nrows : Row(d, q) = Row(d, r)}
  IN  Returned(Rebind(env, TakeRows(d, Positions(kept))), <<>>)

\* Series.mean() of a series with a non-missing cell.  The values of a
\* column of the datasets a cleaner is given differ by a multiple of 6, so
\* the mean of up to three of them and the median are whole numbers.
Mean(x) == Total(x, Valid(x)) \div Cardinality(Valid(x))

\* Series.median() of a series with a non-missing cell.
Median(x) ==
  LET s == SortedValid(x)
      m == Len(s)
  IN  IF m % 2 = 1 THEN s[(m + 1) \div 2]
      ELSE (s[m \div 2] + s[m \div 2 + 1]) \div 2

\* The order of two cells of a column.  A text cell 2k-1 is a word and 2k
\* the same word with a leading blank, which sorts before the word.
SortKey(dtype, c) ==
  IF dtype = "object" THEN (IF c % 2 = 0 THEN c - 1 ELSE c + 1) ELSE c

\* Series.mode(): the most frequent non-missing values; mode()[0] is the
\* smallest of them.
Modes(x) ==
  LET valid == Valid(x)
      count == Materialize([i \in 1..Len(x) |->
                 Cardinality({k \in valid : x[k] = x[i]})])
  IN  {x[i] : i \in {j \in valid : \A k \in valid : count[j] >= count[k]}}

FirstMode(x, dtype) ==
  LET modes == Modes(x)
  IN  CHOOSE v \in modes : \A w \in modes : SortKey(dtype, v) <= SortKey(dtype, w)

\* Series.fillna(method='ffill'): the last non-missing cell above.
FFill(x) ==
  Materialize([i \in 1..Len(x) |->
    IF ~IsNaN(x[i]) \/ ~\E j \in 1..(i - 1) : ~IsNaN(x[j]) THEN x[i]
    ELSE x[SetMax({j \in 1..(i - 1) : ~IsNaN(x[j])})]])

\* Series.fillna(method='bfill'): the next non-missing cell below.
BFill(x) ==
  Materialize([i \in 1..Len(x) |->
    IF ~IsNaN(x[i]) \/ ~\E j \in (i + 1)..Len(x) : ~IsNaN(x[j]) THEN x[i]
    ELSE x[SetMin({j \in (i + 1)..Len(x) : ~IsNaN(x[j])})]])

\* df.dropna(subset=cols): the rows with a cell in each of the columns.
DropNa(d, cols) ==
  TakeRows(d, Positions({r \in 1..d.nrows :
    \A i \in 1..Len(d.cols) :
      d.cols[i].name \in cols => ~IsNaN(d.cols[i].cells[r])}))

\* df[col] = df[col].fillna(value) on the object df is bound to.
StoreFilled(env, col, cells) ==
  Store(env, SetColumn(env.frame, col, DType(env.frame, col), cells))

RECURSIVE FillValues(_, _)
\* for col, val in fill_value.items(): df[col] = df[col].fillna(val)
FillValues(env, items) ==
  IF items = <<>> THEN Returned(env, <<>>)
  ELSE LET col == Head(items)[1]
           val == Head(items)[2]
       IN  IF col \notin ColumnNames(env.frame)
             THEN Raised("KeyError", KeyErrorMessage(col), env, <<>>)
             ELSE FillValues(StoreFilled(env, col, FillNa(Col(env.frame, col), val)),
                             Tail(items))

\* One column of the global strategies 'mean', 'median' and 'mode'.  The
\* mean and the median of a column without a value are NaN, which fills
\* nothing; with an empty mode the call is fillna(None), a ValueError.
FillColumn(env, col, strat) ==
  LET x == Col(env.frame, col)
  IN  IF strat = "mode" /\ Valid(x) = {}
        THEN Raised("ValueError", Message("Must specify a fill 'value' or 'method'.", ""),
                    env, <<>>)
      ELSE IF Valid(x) = {} THEN Returned(StoreFilled(env, col, x), <<>>)
      ELSE Returned(StoreFilled(env, col,
             FillNa(x, IF strat = "mean" THEN Mean(x)
                       ELSE IF strat = "median" THEN Median(x)
                       ELSE FirstMode(x, DType(env.frame, col)))), <<>>)

RECURSIVE FillColumns(_, _, _)
\* for col in cols: df[col] = df[col].fillna(...)
FillColumns(env, cols, strat) ==
  IF cols = <<>> THEN Returned(env, <<>>)
  ELSE LET r == FillColumn(env, Head(cols), strat)
       IN  IF r.status = "raise" THEN r
           ELSE FillColumns(r.env, Tail(cols), strat)

\* The names of the columns cols, in their order.
NamesOf(cols) == Materialize([i \in 1..Len(cols) |-> cols[i].name])

\* One entry of a dict of column-specific strategies (lines 60-75).
StrategyStep(env, col, strat) ==
  LET d == env.frame
  IN  IF col \notin ColumnNames(d) THEN Returned(env, <<>>)
      ELSE IF strat \in {"mean", "median"}
        THEN IF DType(d, col) = "number"
               THEN FillColumn(env, col, strat)
               ELSE Returned(env, <<>>)
      ELSE IF strat = "mode" THEN FillColumn(env, col, strat)
      ELSE IF strat = "drop" THEN Returned(Rebind(env, DropNa(d, {col})), <<>>)
      ELSE IF strat = "ffill"
        THEN Returned(StoreFilled(env, col, FFill(Col(d, col))), <<>>)
      ELSE IF strat = "bfill"
        THEN Returned(StoreFilled(env, col, BFill(Col(d, col))), <<>>)
      ELSE Returned(env, <<>>)

RECURSIVE StrategySteps(_, _)
\* for col, strat in strategy.items()
StrategySteps(env, items) ==
  IF items = <<>> THEN Returned(env, <<>>)
  ELSE LET r == StrategyStep(env, Head(items)[1], Head(items)[2])
       IN  IF r.status = "raise" THEN r
           ELSE StrategySteps(r.env, Tail(items))

\* df.fillna(method=method): every column filled forward or backward.
FillNaMethod(d, method) ==
  DataFrame(d.nrows,
            Materialize([i \in 1..Len(d.cols) |->
              Column(d.cols[i].name, d.cols[i].dtype,
                     IF method = "ffill" THEN FFill(d.cols[i].cells)
                     ELSE BFill(d.cols[i].cells))]))

\* The strategies of fill_missing (lines 59-96) on the copy.  strategy is
\* a string (isdict = FALSE) or the items of a dict.  fillna(method=...) is
\* taken as pandas 1.x and 2.x run it.
FillStrategy(copy, isdict, strategy) ==
  IF isdict THEN StrategySteps(copy, strategy)
  ELSE IF strategy \in {"mean", "median"}
    THEN FillColumns(copy, NamesOf(NumericCols(copy.frame)), strategy)
  ELSE IF strategy = "mode"
    THEN FillColumns(copy, NamesOf(copy.frame.cols), strategy)
  ELSE IF strategy = "drop"
    THEN Returned(Rebind(copy, DropNa(copy.frame, ColumnNames(copy.frame))), <<>>)
  ELSE IF strategy \in {"ffill", "bfill"}
    THEN Returned(Rebind(copy, FillNaMethod(copy.frame, strategy)), <<>>)
  ELSE Returned(copy, <<>>)

\* fill_missing without the return after the fill_value loop: the strategy
\* runs on what the loop filled.
FillMissingNoReturn(env, isdict, strategy, fill_value) ==
  IF FillValues(Copy(env), fill_value).status = "raise"
    THEN FillValues(Copy(env), fill_value)
    ELSE FillStrategy(FillValues(Copy(env), fill_value).env, isdict, strategy)

\* DataCleaner.fill_missing.  fill_value is the items of a dict, None
\* being the empty one; a fill_value with an item is applied and returned,
\* and the strategy is not looked at.
FillMissing(env, isdict, strategy, fill_value) ==
  IF fill_value # <<>>
    THEN FillValues(Copy(env), fill_value)
    ELSE FillStrategy(Copy(env), isdict, strategy)

\* One column of remove_outliers with method='iqr'.  threshold is the
\* fraction threshold[1] / threshold[2]; Q1 and Q3 are kept multiplied by
\* 4 and the bounds by 4 * threshold[2].  The quantiles of a column
\* without a value are NaN, and no row passes the comparison; a row whose
\* cell is missing does not pass it either.
OutlierStep(env, col, threshold) ==
  LET d == env.frame
      x == Col(d, col)
      s == SortedValid(x)
  IN  IF col \notin ColumnNames(d) THEN Returned(env, <<>>)
      ELSE IF DType(d, col) # "number"
        THEN Raised("TypeError", NoMessage, env, <<>>)
      ELSE IF s = <<>> THEN Returned(Rebind(env, TakeRows(d, <<>>)), <<>>)
      ELSE
        LET Q1    == QuantileTimesQ(s, 1, 4)
            Q3    == QuantileTimesQ(s, 3, 4)
            IQR   == Q3 - Q1
            lower == Q1 * threshold[2] - threshold[1] * IQR
            upper == Q3 * threshold[2] + threshold[1] * IQR
            inside == {r \in 1..d.nrows :
                         /\ ~IsNaN(x[r])
                         /\ 4 * threshold[2] * x[r] >= lower
                         /\ 4 * threshold[2] * x[r] <= upper}
        IN  Returned(Rebind(env, TakeRows(d, Positions(inside))), <<>>)

RECURSIVE OutlierSteps(_, _, _)
\* for col in columns
OutlierSteps(env, columns, threshold) ==
  IF columns = <<>> THEN Returned(env, <<>>)
  ELSE LET r == OutlierStep(env, Head(columns), threshold)
       IN  IF r.status = "raise" THEN r
           ELSE OutlierSteps(r.env, Tail(columns), threshold)

\* DataCleaner.remove_outliers with method='iqr'.
RemoveOutliers(env, columns, threshold) ==
  LET copy == Copy(env)
  IN  OutlierSteps(copy,
                   IF columns.none THEN NamesOf(NumericCols(copy.frame))
                   ELSE columns.value,
                   threshold)

\* DataCleaner.standardize_columns
StandardizeColumns(env, lowercase, replace_spaces) ==
  LET copy == Copy(env)
      d    == copy.frame
      cols == Materialize([i \in 1..Len(d.cols) |->
                Column(StandardName(d.cols[i].name, lowercase, replace_spaces),
                       d.cols[i].dtype, d.cols[i].cells)])
  IN  Returned(Store(copy, DataFrame(d.nrows, cols)), <<>>)

\* One conversion of convert_types: whether it raises, and the dtype and
\* cells it gives.  The text cells are words, neither numbers nor dates:
\* to_datetime and to_numeric with errors='coerce' make them missing, and
\* astype('int64') raises on them, as it does on a missing cell.
Convert(d, col, dtype) ==
  LET x       == Col(d, col)
      from    == DType(d, col)
      missing == Materialize([i \in 1..Len(x) |-> NaN])
  IN  IF dtype = "datetime"
        THEN [raises |-> FALSE, dtype |-> "datetime",
              cells |-> IF from = "object" THEN missing ELSE x]
      ELSE IF dtype = "category"
        THEN [raises |-> FALSE, dtype |-> "category", cells |-> x]
      ELSE IF dtype = "numeric"
        THEN [raises |-> FALSE, dtype |-> "number",
              cells |-> IF from = "object" THEN missing ELSE x]
      ELSE IF dtype = "int64"
        THEN IF from = "object"
               THEN [raises |-> Len(x) > 0, dtype |-> "number", cells |-> x]
               ELSE [raises |-> Valid(x) # DOMAIN x, dtype |-> "number", cells |-> x]
      ELSE [raises |-> TRUE, dtype |-> from, cells |-> x]

RECURSIVE ConvertStepsStopAtFailure(_, _, _)
\* convert_types without the try/except: the first conversion that raises
\* ends the call.
ConvertStepsStopAtFailure(env, items, warnings) ==
  IF items = <<>> THEN Returned(env, warnings)
  ELSE LET col  == Head(items)[1]
           conv == Convert(env.frame, col, Head(items)[2])
       IN  IF col \notin ColumnNames(env.frame)
             THEN ConvertStepsStopAtFailure(env, Tail(items), warnings)
           ELSE IF conv.raises
             THEN Raised("ValueError", NoMessage, env, warnings)
           ELSE ConvertStepsStopAtFailure(
                  Store(env, SetColumn(env.frame, col, conv.dtype, conv.cells)),
                  Tail(items), warnings)

RECURSIVE ConvertSteps(_, _, _)
\* for col, dtype in type_map.items(): a column the dataset lacks is
\* skipped, a conversion that raises prints a warning.
ConvertSteps(env, items, warnings) ==
  IF items = <<>> THEN Returned(env, warnings)
  ELSE LET col  == Head(items)[1]
           conv == Convert(env.frame, col, Head(items)[2])
       IN  IF col \notin ColumnNames(env.frame)
             THEN ConvertSteps(env, Tail(items), warnings)
           ELSE IF conv.raises
             THEN ConvertSteps(env, Tail(items), Append(warnings, col))
           ELSE ConvertSteps(
                  Store(env, SetColumn(env.frame, col, conv.dtype, conv.cells)),
                  Tail(items), warnings)

\* DataCleaner.convert_types
ConvertTypes(env, type_map) == ConvertSteps(Copy(env), type_map, <<>>)

\* str.strip() on one cell.
Strip(c) == IF ~IsNaN(c) /\ c % 2 = 0 THEN c - 1 ELSE c

RECURSIVE TrimSteps(_, _)
\* for col in columns: if col in df.columns: df[col] = df[col].str.strip()
\* The .str accessor of a column that is not text raises AttributeError.
TrimSteps(env, columns) ==
  IF columns = <<>> THEN Returned(env, <<>>)
  ELSE LET col == Head(columns)
           d   == env.frame
       IN  IF col \notin ColumnNames(d) THEN TrimSteps(env, Tail(columns))
           ELSE IF DType(d, col) # "object"
             THEN Raised("AttributeError", NoMessage, env, <<>>)
           ELSE TrimSteps(
                  Store(env, SetColumn(d, col, "object",
                    Materialize([i \in 1..d.nrows |-> Strip(Col(d, col)[i])]))),
                  Tail(columns))

\* select_dtypes(include=['object']).columns
ObjectCols(d) == SelectSeq(d.cols, LAMBDA c : c.dtype = "object")

\* DataCleaner.trim_whitespace
TrimWhitespace(env, columns) ==
  LET copy == Copy(env)
  IN  TrimSteps(copy,
                IF columns.none THEN NamesOf(ObjectCols(copy.frame))
                ELSE columns.value)

\* df = self.method(df, ...) inside a method whose df is env: the callee
\* was handed the object df is bound to and r is what it handed back.
\* What the callee did to the object it was handed is done to that object;
\* df is then bound to the frame returned.
Call(env, r) ==
  LET after == Store(env, r.env.caller)
  IN  [r EXCEPT !.env = IF r.status = "ok" /\ r.env.own
                          THEN Rebind(after, r.env.frame)
                          ELSE after]

\* if standardize_columns: df = self.standardize_columns(df)
\* Each step of clean_pipeline takes what the steps before it handed on, r,
\* and is not reached when one of them raised.
StepStandardize(r, standardize_columns) ==
  IF r.status = "ok" /\ standardize_columns
    THEN Call(r.env, StandardizeColumns(Bind(r.env.frame), TRUE, <<"_">>))
    ELSE r

\* if trim_whitespace: df = self.trim_whitespace(df)
StepTrim(r, trim_whitespace) ==
  IF r.status = "ok" /\ trim_whitespace
    THEN Call(r.env, TrimWhitespace(Bind(r.env.frame), None))
    ELSE r

\* if remove_duplicates: df = self.remove_duplicates(df)
StepDuplicates(r, remove_duplicates) ==
  IF r.status = "ok" /\ remove_duplicates
    THEN Call(r.env, RemoveDuplicates(Bind(r.env.frame), "first"))
    ELSE r

\* if fill_missing: df = self.fill_missing(df, strategy=fill_missing)
StepFill(r, fill_missing) ==
  IF r.status = "ok" /\ ~fill_missing.none /\ fill_missing.value # ""
    THEN Call(r.env, FillMissing(Bind(r.env.frame), FALSE, fill_missing.value, <<>>))
    ELSE r

\* if remove_outliers: df = self.remove_outliers(df, columns=remove_outliers)
StepOutliers(r, remove_outliers) ==
  IF r.status = "ok" /\ ~remove_outliers.none /\ remove_outliers.value # <<>>
    THEN Call(r.env, RemoveOutliers(Bind(r.env.frame), remove_outliers, <<3, 2>>))
    ELSE r

\* if type_conversions: df = self.convert_types(df, type_conversions)
StepConvert(r, type_conversions) ==
  IF r.status = "ok" /\ ~type_conversions.none /\ type_conversions.value # <<>>
    THEN Call(r.env, ConvertTypes(Bind(r.env.frame), type_conversions.value))
    ELSE r

\* clean_pipeline with duplicates removed before whitespace is trimmed.
CleanPipelineDuplicatesFirst(env, remove_duplicates, fill_missing, remove_outliers, standardize_columns, trim_whitespace, type_conversions) ==
  StepConvert(
    StepOutliers(
      StepFill(
        StepTrim(
          StepDuplicates(
            StepStandardize(Returned(env, <<>>), standardize_columns),
            remove_duplicates),
          trim_whitespace),
        fill_missing),
      remove_outliers),
    type_conversions)

\* DataCleaner.clean_pipeline.  fill_missing, remove_outliers and
\* type_conversions are None or a value; an empty value is skipped too.
CleanPipeline(env, remove_duplicates, fill_missing, remove_outliers, standardize_columns, trim_whitespace, type_conversions) ==
  StepConvert(
    StepOutliers(
      StepFill(
        StepDuplicates(
          StepTrim(
            StepStandardize(Returned(env, <<>>), standardize_columns),
            trim_whitespace),
          remove_duplicates),
        fill_missing),
      remove_outliers),
    type_conversions)

\* --------------------------------------- time_series_stats and group_stats
\* pandas.to_datetime(df[date_col]) with errors='raise': numbers are taken
\* as nanoseconds, a missing cell becomes NaT and a word cannot be parsed.
ToDatetimeRaises(d, col) == DType(d, col) = "object" /\ Valid(Col(d, col)) # {}

\* df.sort_values(col): the rows in ascending order of col, the rows whose
\* cell is missing last; rows with equal cells keep their order (numpy
\* sorts arrays this short by insertion).
SortValues(d, col) ==
  LET x  == Col(d, col)
      rk == RankFirst(x)
      nv == Cardinality(Valid(x))
      nanrank == Materialize([i \in 1..Len(x) |->
                   IF IsNaN(x[i])
                     THEN nv + Cardinality({j \in 1..i : IsNaN(x[j])})
                     ELSE rk[i]])
  IN  TakeRows(d, Materialize([k \in 1..Len(x) |->
                    CHOOSE i \in 1..Len(x) : nanrank[i] = k]))

\* Series.min() / Series.max(): NaN when there is no value.
SeriesMin(x) == IF Valid(x) = {} THEN NaN ELSE SetMin({x[i] : i \in Valid(x)})

SeriesMax(x) == IF Valid(x) = {} THEN NaN ELSE SetMax({x[i] : i \in Valid(x)})

\* Analyzer.time_series_stats with freq=None.  The figures mean, std and
\* trend are kept as the series they are computed from and the number of
\* decimals they are rounded to.  A value column that is not numeric (the
\* date column itself, or text) fails in round() or mean() with TypeError.
TimeSeriesStats(self, env, date_col, value_col) ==
  IF date_col \notin ColumnNames(env.frame)
    THEN Raised("ValueError", Message("Date column not found", date_col), env, <<>>)
  ELSE IF value_col \notin ColumnNames(env.frame)
    THEN Raised("ValueError", Message("Value column not found", value_col), env, <<>>)
  ELSE
    LET copy == Copy(env)
    IN  IF DType(copy.frame, date_col) # "datetime" /\ ToDatetimeRaises(copy.frame, date_col)
          THEN Raised("ValueError", Message("Unknown datetime string format", ""),
                      copy, <<>>)
        ELSE
          LET dated  == IF DType(copy.frame, date_col) # "datetime"
                          THEN Store(copy, SetColumn(copy.frame, date_col, "datetime",
                                                     Col(copy.frame, date_col)))
                          ELSE copy
              sorted == Rebind(dated, SortValues(dated.frame, date_col))
              values == Col(sorted.frame, value_col)
          IN  IF DType(sorted.frame, value_col) # "number"
                THEN Raised("TypeError", NoMessage, sorted, <<>>)
                ELSE [status |-> "ok", error |-> "", message |-> NoMessage,
                      env |-> sorted, warnings |-> <<>>,
                      stats |-> [start_date |-> SeriesMin(Col(sorted.frame, date_col)),
                                 end_date |-> SeriesMax(Col(sorted.frame, date_col)),
                                 total_periods |-> sorted.frame.nrows,
                                 values |-> values,
                                 min |-> SeriesMin(values),
                                 max |-> SeriesMax(values),
                                 round |-> self.decimal_places]]

\* Analyzer.group_stats with agg=None, group_by a text column or a name
\* the dataset lacks: df.groupby raises KeyError(group_by) for the latter;
\* the groups are the values of the column in sorted order, each with its
\* rows, and a row whose key is missing is in no group.  The figures are
\* kept as the numeric columns aggregated and the decimals of the rounding.
GroupStats(self, d, group_by) ==
  IF group_by \notin ColumnNames(d)
    THEN [op |-> "group_stats", status |-> "raise", error |-> "KeyError",
          message |-> KeyErrorMessage(group_by), groups |-> {}, agg |-> <<>>,
          round |-> 0]
    ELSE
      LET x == Col(d, group_by)
      IN  [op |-> "group_stats", status |-> "ok", error |-> "",
           message |-> NoMessage,
           groups |-> {<<x[i], {r \in Valid(x) : x[r] = x[i]}>> : i \in Valid(x)},
           agg |-> NamesOf(NumericCols(d)),
           round |-> self.decimal_places]

\* -------------------------------------------- operations specification
\* Largest number of rows of a dataset handed to the operations of the
\* Analyzer and the DataCleaner.
MaxORows == 3

\* The columns of these datasets: a date given as a number, an amount and
\* a text label; and a name no dataset has.
DayCol == <<"D", "a", "y">>

AmountCol == <<"N", "e", "t", " ", "$">>

TagCol == <<"t", "a", "g">>

MissingCol == <<"x">>

\* The names standardize_columns gives the date and the amount.
StandardDayCol == <<"d", "a", "y">>

StandardAmountCol == <<"n", "e", "t", "_">>

\* The rows <<day, amount, tag>> they are made of.  Tag 1 is a word and
\* tag 2 the same word with a blank before it; the days and the amounts
\* differ by 6.
OpsRows ==
  { <<1, 3, 1>>, <<1, 3, 2>>, <<7, 9, 1>>, <<7, NaN, 1>>, <<NaN, 3, NaN>> }

OpsFrame(rows) ==
  DataFrame(Len(rows),
            << Column(DayCol, "number", Materialize([i \in 1..Len(rows) |-> rows[i][1]])),
               Column(AmountCol, "number", Materialize([i \in 1..Len(rows) |-> rows[i][2]])),
               Column(TagCol, "object", Materialize([i \in 1..Len(rows) |-> rows[i][3]])) >>)

\* The configurations an Analyzer is constructed with.
Configs == {NoConfig, Config({<<"decimal_places", 0>>})}

\* Every dataset of up to MaxORows of these rows, and an Analyzer.
InitOps ==
  /\ \E m \in 0..MaxORows : \E rows \in [1..m -> OpsRows] : df = OpsFrame(rows)
  /\ \E config \in Configs : analyzer = NewAnalyzer(config)
  /\ visualizer = NewVisualizer(NoConfig)
  /\ pyplot = NoFigures
  /\ files = NoFiles
  /\ out = NoCall

\* A result together with the arguments of the call it is the result of.
WithArgs(result, args) ==
  [k \in DOMAIN result \cup {"args"} |-> IF k = "args" THEN args ELSE result[k]]

\* The dataset a method that raised hands back: none.
NoFrame == DataFrame(0, <<>>)

\* What the caller of a DataCleaner method holds afterwards.
CleanerResult(op, args, r) ==
  [op |-> op, status |-> r.status, error |-> r.error, message |-> r.message,
   args |-> args, warnings |-> r.warnings,
   frame |-> IF r.status = "ok" THEN r.env.frame ELSE NoFrame]

\* analyzer.segment_rfm(df, r_col, f_col, m_col), n_segments = 4
CallSegmentRfmCols ==
  /\ out = NoCall
  /\ \E r_col \in {AmountCol, MissingCol} : \E f_col \in {DayCol, MissingCol} :
       \E m_col \in {AmountCol, MissingCol} :
         \E r \in SegmentRfm(df, r_col, f_col, m_col, 4) :
           out' = WithArgs(r, <<r_col, f_col, m_col, 4>>)
  /\ analyzer' = SelfAfterCall(analyzer)
  /\ UNCHANGED df
  /\ UNCHANGED <<visualizer, pyplot, files>>

\* analyzer.time_series_stats(df, date_col, value_col)
CallTimeSeriesStats ==
  /\ out = NoCall
  /\ \E date_col \in {DayCol, TagCol, MissingCol} :
       \E value_col \in {AmountCol, DayCol, MissingCol} :
         \E r \in {TimeSeriesStats(analyzer, Bind(df), date_col, value_col)} :
             /\ out' = [op |-> "time_series_stats", status |-> r.status,
                        error |-> r.error, message |-> r.message,
                        args |-> <<date_col, value_col>>,
                        stats |-> IF r.status = "ok" THEN r.stats ELSE <<>>]
             /\ df' = r.env.caller
  /\ analyzer' = SelfAfterCall(analyzer)
  /\ UNCHANGED <<visualizer, pyplot, files>>

\* analyzer.group_stats(df, group_by)
CallGroupStats ==
  /\ out = NoCall
  /\ \E group_by \in {TagCol, MissingCol} :
       out' = WithArgs(GroupStats(analyzer, df, group_by), <<group_by>>)
  /\ analyzer' = SelfAfterCall(analyzer)
  /\ UNCHANGED df
  /\ UNCHANGED <<visualizer, pyplot, files>>

\* cleaner.remove_duplicates(df, keep=keep)
CallRemoveDuplicates ==
  /\ out = NoCall
  /\ \E keep \in {"first", "last"} :
       \E r \in {RemoveDuplicates(Bind(df), keep)} :
           /\ out' = CleanerResult("remove_duplicates", <<keep>>, r)
           /\ df' = r.env.caller
  /\ UNCHANGED analyzer
  /\ UNCHANGED <<visualizer, pyplot, files>>

Strategies == {"mean", "median", "mode", "drop", "ffill", "bfill"}

DictStrategies ==
  { << <<AmountCol, "mean">>, <<TagCol, "mode">> >>,
    << <<MissingCol, "mean">>, <<AmountCol, "drop">>, <<TagCol, "ffill">> >>,
    << <<DayCol, "median">>, <<TagCol, "mean">>, <<AmountCol, "bfill">> >> }

FillValueChoices ==
  { <<>>, << <<AmountCol, 0>> >>, << <<TagCol, 1>>, <<MissingCol, 0>> >>,
    << <<TagCol, 1>>, <<DayCol, 0>> >> }

\* cleaner.fill_missing(df, strategy, fill_value)
CallFillMissing ==
  /\ out = NoCall
  /\ \/ \E strategy \in Strategies : \E fill_value \in FillValueChoices :
          \E r \in {FillMissing(Bind(df), FALSE, strategy, fill_value)} :
              /\ out' = CleanerResult("fill_missing", <<strategy, fill_value, FALSE>>, r)
              /\ df' = r.env.caller
     \/ \E strategy \in DictStrategies :
          \E r \in {FillMissing(Bind(df), TRUE, strategy, <<>>)} :
              /\ out' = CleanerResult("fill_missing", <<strategy, <<>>, TRUE>>, r)
              /\ df' = r.env.caller
  /\ UNCHANGED analyzer
  /\ UNCHANGED <<visualizer, pyplot, files>>

\* threshold as a fraction: the default 1.5, and 0.
Thresholds == {<<3, 2>>, <<0, 1>>}

\* cleaner.remove_outliers(df, columns, 'iqr', threshold)
CallRemoveOutliers ==
  /\ out = NoCall
  /\ \E columns \in {None, Some(<<AmountCol>>), Some(<<MissingCol, DayCol>>),
                     Some(<<TagCol>>)} :
       \E threshold \in Thresholds :
         \E r \in {RemoveOutliers(Bind(df), columns, threshold)} :
             /\ out' = CleanerResult("remove_outliers", <<columns, threshold>>, r)
             /\ df' = r.env.caller
  /\ UNCHANGED analyzer
  /\ UNCHANGED <<visualizer, pyplot, files>>

\* cleaner.standardize_columns(df, lowercase)
CallStandardizeColumns ==
  /\ out = NoCall
  /\ \E lowercase \in BOOLEAN :
       \E r \in {StandardizeColumns(Bind(df), lowercase, <<"_">>)} :
           /\ out' = CleanerResult("standardize_columns", <<lowercase>>, r)
           /\ df' = r.env.caller
  /\ UNCHANGED analyzer
  /\ UNCHANGED <<visualizer, pyplot, files>>

TypeMaps ==
  { << <<AmountCol, "int64">> >>,
    << <<TagCol, "numeric">>, <<DayCol, "datetime">> >>,
    << <<MissingCol, "numeric">>, <<TagCol, "int64">>, <<AmountCol, "category">> >>,
    << <<DayCol, "int64">>, <<AmountCol, "numeric">> >> }

\* cleaner.convert_types(df, type_map)
CallConvertTypes ==
  /\ out = NoCall
  /\ \E type_map \in TypeMaps :
       \E r \in {ConvertTypes(Bind(df), type_map)} :
           /\ out' = CleanerResult("convert_types", <<type_map>>, r)
           /\ df' = r.env.caller
  /\ UNCHANGED analyzer
  /\ UNCHANGED <<visualizer, pyplot, files>>

\* cleaner.trim_whitespace(df, columns)
CallTrimWhitespace ==
  /\ out = NoCall
  /\ \E columns \in {None, Some(<<MissingCol, TagCol>>), Some(<<AmountCol>>)} :
       \E r \in {TrimWhitespace(Bind(df), columns)} :
           /\ out' = CleanerResult("trim_whitespace", <<columns>>, r)
           /\ df' = r.env.caller
  /\ UNCHANGED analyzer
  /\ UNCHANGED <<visualizer, pyplot, files>>

\* cleaner.clean_pipeline(df, ...)
CallCleanPipeline ==
  /\ out = NoCall
  /\ \E remove_duplicates \in BOOLEAN : \E standardize_columns \in BOOLEAN :
       \E trim_whitespace \in BOOLEAN :
         \E fill_missing \in {None, Some("mean"), Some("mode")} :
           \E remove_outliers \in {None, Some(<<StandardAmountCol>>)} :
             \E type_conversions \in {None, Some(<< <<StandardAmountCol, "int64">> >>)} :
               \E r \in {CleanPipeline(Bind(df), remove_duplicates, fill_missing,
                                      remove_outliers, standardize_columns,
                                      trim_whitespace, type_conversions)} :
                   /\ out' = CleanerResult("clean_pipeline",
                               <<remove_duplicates, fill_missing, remove_outliers,
                                 standardize_columns, trim_whitespace,
                                 type_conversions>>, r)
                   /\ df' = r.env.caller
  /\ UNCHANGED analyzer
  /\ UNCHANGED <<visualizer, pyplot, files>>

\* The results the call whose result is held can have when it is made
\* again with the same arguments.
Again(self, d, held) ==
  IF held.op = "profile" THEN {Profile(self, d)}
  ELSE IF held.op = "generate_insights" THEN GenerateInsights(self, d)
  ELSE {WithArgs(r, held.args) :
          r \in SegmentRfm(d, held.args[1], held.args[2], held.args[3], held.args[4])}

\* With the result of profile, segment_rfm or generate_insights in hand,
\* the caller makes another call on the same Analyzer, drops its result,
\* and repeats the first call.
CallAgain ==
  /\ out.op \in {"profile", "segment_rfm", "generate_insights"}
  /\ \E other \in {"correlation", "group_stats", "time_series_stats"} :
       \E second \in Again(SelfAfterCall(analyzer), df, out) :
         out' = [op |-> "again", status |-> "ok", first |-> out,
                 other |-> other, second |-> second]
  /\ analyzer' = SelfAfterCall(SelfAfterCall(analyzer))
  /\ UNCHANGED df
  /\ UNCHANGED <<visualizer, pyplot, files>>

NextOps ==
  \/ CallProfile \/ CallCorrelation \/ CallGenerateInsights
  \/ CallSegmentRfmCols \/ CallTimeSeriesStats \/ CallGroupStats
  \/ CallRemoveDuplicates \/ CallFillMissing \/ CallRemoveOutliers
  \/ CallStandardizeColumns \/ CallConvertTypes \/ CallTrimWhitespace
  \/ CallCleanPipeline \/ CallAgain \/ Discard

SpecOps == InitOps /\ [][NextOps]_vars

\* ------------------------------------------------------------- matplotlib
\* plt.rcParams['figure.figsize'] and ['figure.dpi'], set when
\* visualizer.py is imported.
RcFigsize == <<10, 6>>

RcDpi == 100

\* Largest number of figures made in one run.
MaxFigures == 2

\* A new Figure: its size and dpi, and whether anything has been drawn or
\* written on it.
Figure(figsize, dpi) == [figsize |-> figsize, dpi |-> dpi, drawn |-> FALSE]

\* plt.figure(figsize=, dpi=): makes a figure, holds it open and makes it
\* the active one.
PltFigure(plt, figsize, dpi) ==
  [figs |-> Append(plt.figs, Figure(figsize, dpi)),
   managers |-> Append(plt.managers, Len(plt.figs) + 1)]

\* plt.gcf(), where a figure is open.
Gcf(plt) == plt.managers[Len(plt.managers)]

\* plt.plot, plt.bar, plt.scatter, plt.pie, the seaborn functions, and
\* plt.title, plt.xlabel, plt.ylabel, plt.legend, plt.tight_layout: all
\* draw or write on the active figure.
PltDraw(plt) == [plt EXCEPT !.figs[Gcf(plt)].drawn = TRUE]

\* plt.close(fig): the figure is no longer held open; plt.close(None)
\* closes the active figure, if there is one.
PltClose(plt, fig) ==
  LET target == IF fig # 0 THEN fig
                ELSE IF plt.managers = <<>> THEN 0 ELSE Gcf(plt)
  IN  [plt EXCEPT !.managers = SelectSeq(@, LAMBDA m : m # target)]

\* isinstance(df, pd.Series): a Series is a column on its own.
IsSeries(d) == "cells" \in DOMAIN d

\* DataFrame.plot(kind=, title=) without ax: makes a figure of its own with
\* the rcParams, which becomes the active one, and draws there.  (Series.plot
\* draws on the active axes.)
DataFramePlot(plt) == PltDraw(PltFigure(plt, RcFigsize, RcDpi))

\* Whether .plot() raises TypeError('no numeric data to plot').
NoNumericData(d) ==
  IF IsSeries(d) THEN d.dtype # "number" ELSE Len(NumericCols(d)) = 0

\* An optional column name or label in a condition: neither None nor ''.
Truthy(arg) == ~arg.none /\ arg.value # ""

\* arg or default, for a column name or label.
Or(arg, default) == IF Truthy(arg) THEN arg.value ELSE default

\* arg or default, for a figure size or a dpi (an empty size and a dpi of
\* 0, which count as not given, are not among the inputs).
OrValue(arg, default) == IF arg.none THEN default ELSE arg.value

\* What a call on the Visualizer leaves: the Visualizer, pyplot, and the
\* figure returned (0 when it raised).
VizReturned(self, plt) ==
  [status |-> "ok", error |-> "", self |-> self, plt |-> plt,
   figure |-> self.current_fig]

VizRaised(error, self, plt) ==
  [status |-> "raise", error |-> error, self |-> self, plt |-> plt, figure |-> 0]

\* A figure made that stays out of self.current_fig.
CreateFigureUnheld(self, plt, figsize) ==
  [self |-> IF self.current_fig = 0
              THEN [self EXCEPT !.current_fig = Len(plt.figs) + 1] ELSE self,
   plt |-> PltFigure(plt, OrValue(figsize, self.figsize), self.dpi)]

\* Visualizer._create_figure
CreateFigure(self, plt, figsize) ==
  [self |-> [self EXCEPT !.current_fig = Len(plt.figs) + 1],
   plt |-> PltFigure(plt, OrValue(figsize, self.figsize), self.dpi)]

\* Visualizer.plot_line
PlotLine(self, plt, d, x, y) ==
  LET made == CreateFigure(self, plt, None)
  IN  IF ~IsSeries(d) /\ Truthy(x) /\ Truthy(y)
        THEN IF {x.value, y.value} \subseteq ColumnNames(d)
               THEN VizReturned(made.self, PltDraw(made.plt))
               ELSE VizRaised("KeyError", made.self, made.plt)
      ELSE IF NoNumericData(d) THEN VizRaised("TypeError", made.self, made.plt)
      ELSE IF IsSeries(d) THEN VizReturned(made.self, PltDraw(made.plt))
      ELSE VizReturned(made.self, PltDraw(DataFramePlot(made.plt)))

\* Visualizer.plot_bar, vertical or horizontal alike
PlotBar(self, plt, d, x, y) == PlotLine(self, plt, d, x, y)

\* Visualizer.plot_scatter
PlotScatter(self, plt, d, x, y, hue) ==
  LET made == CreateFigure(self, plt, None)
      names == {x, y} \cup (IF Truthy(hue) THEN {hue.value} ELSE {})
  IN  IF names \subseteq ColumnNames(d)
        THEN VizReturned(made.self, PltDraw(made.plt))
        ELSE VizRaised(IF Truthy(hue) THEN "ValueError" ELSE "KeyError",
                       made.self, made.plt)

\* Visualizer.plot_histogram
PlotHistogram(self, plt, d, column) ==
  LET made == CreateFigure(self, plt, None)
  IN  IF ~IsSeries(d) /\ column \notin ColumnNames(d)
        THEN VizRaised("KeyError", made.self, made.plt)
        ELSE VizReturned(made.self, PltDraw(made.plt))

\* Visualizer.plot_box with by=None
PlotBox(self, plt, d, column) == PlotHistogram(self, plt, d, column)

\* Visualizer.plot_heatmap: the figure is sized by the data.
PlotHeatmap(self, plt, d) ==
  LET wide == IF Len(d.cols) > 10 THEN Len(d.cols) ELSE 10
      high == IF d.nrows > 8 THEN d.nrows ELSE 8
      made == CreateFigure(self, plt, Some(<<wide, high>>))
  IN  IF Len(NumericCols(d)) # Len(d.cols) \/ d.nrows = 0 \/ Len(d.cols) = 0
        THEN VizRaised("ValueError", made.self, made.plt)
        ELSE VizReturned(made.self, PltDraw(made.plt))

\* Visualizer.plot_pie
PlotPie(self, plt, d, column) ==
  LET made == CreateFigure(self, plt, Some(<<8, 8>>))
  IN  IF ~IsSeries(d) /\ column \notin ColumnNames(d)
        THEN VizRaised("KeyError", made.self, made.plt)
        ELSE VizReturned(made.self, PltDraw(made.plt))

\* Visualizer.plot_multiple: columns the dataset lacks are passed over,
\* the title, labels and legend are written in any case.
PlotMultiple(self, plt, d, columns, x) ==
  LET made == CreateFigure(self, plt, None)
  IN  IF Truthy(x) /\ x.value \notin ColumnNames(d)
        THEN VizRaised("KeyError", made.self, made.plt)
        ELSE VizReturned(made.self, PltDraw(made.plt))

\* ------------------------------------------------------------ file system
\* Paths are tuples of characters.  The position of the last '/' of a
\* path, 0 when it has none.
LastSlash(path) ==
  LET slashes == {i \in 1..Len(path) : path[i] = "/"}
  IN  IF slashes = {} THEN 0 ELSE SetMax(slashes)

\* Path(path).parent; '.' for a bare name.
Parent(path) ==
  IF LastSlash(path) = 0 THEN <<".">> ELSE SubSeq(path, 1, LastSlash(path) - 1)

\* Path(path).name
BaseName(path) == SubSeq(path, LastSlash(path) + 1, Len(path))

\* dir and the directories above it, the working directory apart.
WithParents(dir) ==
  IF dir = <<".">> THEN {}
  ELSE {dir} \cup {SubSeq(dir, 1, i - 1) : i \in {j \in 1..Len(dir) : dir[j] = "/"}}

IsDir(fs, path) == path \in DOMAIN fs /\ fs[path].kind = "dir"

\* Path.mkdir(parents=True, exist_ok=True) raises when the directory or
\* one above it exists as a file.
MkdirRaises(fs, dir) == \E a \in WithParents(dir) : a \in DOMAIN fs /\ ~IsDir(fs, a)

Mkdir(fs, dir) ==
  [p \in DOMAIN fs \cup WithParents(dir) |->
     IF p \in DOMAIN fs THEN fs[p] ELSE [kind |-> "dir"]]

\* The file at path is written anew.
WriteFile(fs, path, content) ==
  [p \in DOMAIN fs \cup {path} |-> IF p = path THEN content ELSE fs[p]]

\* What a call that writes leaves: the file system and what it printed.
Wrote(status, error, fs, printed) ==
  [status |-> status, error |-> error, fs |-> fs, printed |-> printed]

\* A save_plot that looks at pyplot's active figure instead of
\* self.current_fig.
SavePlotActive(self, plt, fs, path, dpi) ==
  IF plt.managers # <<>>
    THEN Wrote("ok", "",
               WriteFile(Mkdir(fs, Parent(path)), path,
                         [kind |-> "image", fig |-> Gcf(plt),
                          dpi |-> OrValue(dpi, self.dpi)]),
               "Plot saved to")
    ELSE Wrote("ok", "", fs, "No plot to save")

\* Visualizer.save_plot
SavePlot(self, plt, fs, path, dpi) ==
  IF self.current_fig # 0
    THEN IF MkdirRaises(fs, Parent(path))
           THEN Wrote("raise", "FileExistsError", fs, "")
         ELSE IF IsDir(Mkdir(fs, Parent(path)), path)
           THEN Wrote("raise", "IsADirectoryError", Mkdir(fs, Parent(path)), "")
         ELSE Wrote("ok", "",
                    WriteFile(Mkdir(fs, Parent(path)), path,
                              [kind |-> "image", fig |-> self.current_fig,
                               dpi |-> OrValue(dpi, self.dpi)]),
                    "Plot saved to")
    ELSE Wrote("ok", "", fs, "No plot to save")

\* A close_plot that leaves self.current_fig as it is.
ClosePlotKeeps(self, plt) == VizReturned(self, PltClose(plt, self.current_fig))

\* Visualizer.close_plot
ClosePlot(self, plt) ==
  VizReturned([self EXCEPT !.current_fig = 0], PltClose(plt, self.current_fig))

\* Visualizer.plotly_line, plotly_bar, plotly_scatter, plotly_heatmap with
\* plotly installed: the plotly figure is returned (or plotly.express
\* raises on an absent column) and matplotlib is left alone.
PlotlyFigure(self, plt, d, names) ==
  IF names \subseteq ColumnNames(d)
    THEN VizReturned(self, plt)
    ELSE VizRaised("ValueError", self, plt)

\* Visualizer.plotly_line
PlotlyLine(self, plt, d, x, y, installed) ==
  IF installed THEN PlotlyFigure(self, plt, d, {x, y})
  ELSE PlotLine(self, plt, d, Some(x), Some(y))

\* Visualizer.plotly_bar
PlotlyBar(self, plt, d, x, y, installed) ==
  IF installed THEN PlotlyFigure(self, plt, d, {x, y})
  ELSE PlotBar(self, plt, d, Some(x), Some(y))

\* Visualizer.plotly_scatter
PlotlyScatter(self, plt, d, x, y, color, installed) ==
  IF installed
    THEN PlotlyFigure(self, plt, d, {x, y} \cup (IF color.none THEN {} ELSE {color.value}))
    ELSE PlotScatter(self, plt, d, x, y, color)

\* Visualizer.plotly_heatmap
PlotlyHeatmap(self, plt, d, installed) ==
  IF installed THEN PlotlyFigure(self, plt, d, {})
  ELSE PlotHeatmap(self, plt, d)

\* Visualizer.save_plotly
SavePlotly(fs, path) ==
  IF MkdirRaises(fs, Parent(path))
    THEN Wrote("raise", "FileExistsError", fs, "")
  ELSE IF IsDir(Mkdir(fs, Parent(path)), path)
    THEN Wrote("raise", "IsADirectoryError", Mkdir(fs, Parent(path)), "")
  ELSE Wrote("ok", "", WriteFile(Mkdir(fs, Parent(path)), path, [kind |-> "html"]), "")

\* --------------------------------------------- visualizer specification
\* The datasets plotted: two numeric columns and a text column, and a
\* dataset without a numeric column.
VizFrames ==
  { DataFrame(2, << Column("x", "number", <<1, 3>>),
                    Column("y", "number", <<3, 1>>),
                    Column("g", "object", <<1, 3>>) >>),
    DataFrame(1, << Column("g", "object", <<1>>) >>) }

\* The paths plots are saved to: out/a.png and out/a.png/b.png.
SavePaths ==
  { <<"o", "u", "t", "/", "a", ".", "p", "n", "g">>,
    <<"o", "u", "t", "/", "a", ".", "p", "n", "g", "/", "b", ".", "p", "n", "g">> }

InitViz ==
  /\ df \in VizFrames
  /\ analyzer = NewAnalyzer(NoConfig)
  /\ visualizer = NewVisualizer(NoConfig)
  /\ pyplot = NoFigures
  /\ files = NoFiles
  /\ out = NoCall

\* The data handed to a plot method: the dataset or its first column.
PlotData == {df, df.cols[1]}

\* What is kept of a call on the Visualizer: the method, whether it
\* returned, whether it went through a matplotlib plot_* method, and what it
\* printed.
VizCall(op, status, matplotlib, printed) ==
  [op |-> op, status |-> status, matplotlib |-> matplotlib, printed |-> printed]

\* A plot method has been called with result r: it leaves the Visualizer
\* and pyplot as r has them.
Plotted(op, r, matplotlib) ==
  /\ Len(r.plt.figs) <= MaxFigures
  /\ visualizer' = r.self
  /\ pyplot' = r.plt
  /\ out' = VizCall(op, r.status, matplotlib, "")
  /\ UNCHANGED <<df, analyzer, files>>

CallPlotLine ==
  \E d \in PlotData :
    \E xy \in {<<None, None>>, <<Some("x"), Some("y")>>, <<Some("x"), Some("q")>>} :
      Plotted("plot_line", PlotLine(visualizer, pyplot, d, xy[1], xy[2]), TRUE)

CallPlotBar ==
  \E xy \in {<<None, None>>, <<Some("x"), Some("y")>>} :
    Plotted("plot_bar", PlotBar(visualizer, pyplot, df, xy[1], xy[2]), TRUE)

CallPlotScatter ==
  \E y \in {"y", "q"} : \E hue \in {None, Some("g")} :
    Plotted("plot_scatter", PlotScatter(visualizer, pyplot, df, "x", y, hue), TRUE)

CallPlotHistogram ==
  \E column \in {"x", "q"} :
    Plotted("plot_histogram", PlotHistogram(visualizer, pyplot, df, column), TRUE)

CallPlotBox ==
  \E d \in PlotData :
    Plotted("plot_box", PlotBox(visualizer, pyplot, d, "x"), TRUE)

\* The dataset, or its numeric columns alone.
CallPlotHeatmap ==
  \E d \in {df, DataFrame(df.nrows, NumericCols(df))} :
    Plotted("plot_heatmap", PlotHeatmap(visualizer, pyplot, d), TRUE)

CallPlotPie ==
  Plotted("plot_pie", PlotPie(visualizer, pyplot, df, "g"), TRUE)

CallPlotMultiple ==
  \E x \in {None, Some("q")} :
    Plotted("plot_multiple",
            PlotMultiple(visualizer, pyplot, df, <<"x", "q", "y">>, x), TRUE)

\* plotly may or may not be installed where the call is made.
CallPlotlyLine ==
  \E installed \in BOOLEAN :
    Plotted("plotly_line",
            PlotlyLine(visualizer, pyplot, df, "x", "y", installed), ~installed)

CallPlotlyBar ==
  \E installed \in BOOLEAN :
    Plotted("plotly_bar",
            PlotlyBar(visualizer, pyplot, df, "x", "y", installed), ~installed)

CallPlotlyScatter ==
  \E installed \in BOOLEAN :
    Plotted("plotly_scatter",
            PlotlyScatter(visualizer, pyplot, df, "x", "y", None, installed),
            ~installed)

CallPlotlyHeatmap ==
  \E installed \in BOOLEAN :
    Plotted("plotly_heatmap",
            PlotlyHeatmap(visualizer, pyplot, df, installed), ~installed)

\* A call has written (or not): it leaves the file system as r has it.
Saved(op, r) ==
  /\ files' = r.fs
  /\ out' = VizCall(op, r.status, FALSE, r.printed)
  /\ UNCHANGED <<df, analyzer, visualizer, pyplot>>

CallSavePlot ==
  \E path \in SavePaths : \E dpi \in {None, Some(RcDpi)} :
    Saved("save_plot", SavePlot(visualizer, pyplot, files, path, dpi))

\* The figure a plotly_* call returned is saved.
CallSavePlotly ==
  /\ out.op \in {"plotly_line", "plotly_bar", "plotly_scatter", "plotly_heatmap"}
  /\ out.status = "ok"
  /\ ~out.matplotlib
  /\ \E path \in SavePaths : Saved("save_plotly", SavePlotly(files, path))

\* Visualizer.show_plot: plt.show() when there is a current figure; nothing
\* is kept of it.
CallShowPlot ==
  /\ out' = VizCall("show_plot", "ok", FALSE, "")
  /\ UNCHANGED <<df, analyzer, visualizer, pyplot, files>>

CallClosePlot ==
  LET r == ClosePlot(visualizer, pyplot)
  IN  /\ visualizer' = r.self
      /\ pyplot' = r.plt
      /\ out' = VizCall("close_plot", "ok", FALSE, "")
      /\ UNCHANGED <<df, analyzer, files>>

NextViz ==
  \/ CallPlotLine \/ CallPlotBar \/ CallPlotScatter \/ CallPlotHistogram
  \/ CallPlotBox \/ CallPlotHeatmap \/ CallPlotPie \/ CallPlotMultiple
  \/ CallPlotlyLine \/ CallPlotlyBar \/ CallPlotlyScatter \/ CallPlotlyHeatmap
  \/ CallSavePlot \/ CallSavePlotly \/ CallShowPlot \/ CallClosePlot

SpecViz == InitViz /\ [][NextViz]_vars

\* ---------------------------------------------------------- the DataLoader
\* Characters in code point order, as sorted() compares strings.
CodeOrder == <<"*", ".", "/">> \o UpperCase \o <<"_">> \o LowerCase

CodePoint(ch) == CHOOSE i \in 1..Len(CodeOrder) : CodeOrder[i] = ch

RECURSIVE StrLess(_, _)
\* a < b for strings.
StrLess(a, b) ==
  IF b = <<>> THEN FALSE
  ELSE IF a = <<>> THEN TRUE
  ELSE IF Head(a) = Head(b) THEN StrLess(Tail(a), Tail(b))
  ELSE CodePoint(Head(a)) < CodePoint(Head(b))

\* The paths in descending order.
SortedDescending(paths) ==
  Materialize([k \in 1..Cardinality(paths) |->
    CHOOSE p \in paths : Cardinality({q \in paths : StrLess(p, q)}) = k - 1])

\* sorted(files)
Sorted(paths) ==
  Materialize([k \in 1..Cardinality(paths) |->
    CHOOSE p \in paths : Cardinality({q \in paths : StrLess(q, p)}) = k - 1])

RECURSIVE Matches(_, _, _)
\* fnmatch of a path against a glob pattern whose only wildcard is '*': it
\* stands for any characters but '/', and not for a leading '.' of a
\* name.  start: the position is at the beginning of a name.
Matches(pattern, path, start) ==
  IF pattern = <<>> THEN path = <<>>
  ELSE IF Head(pattern) = "*"
    THEN \/ Matches(Tail(pattern), path, FALSE)
         \/ /\ path # <<>>
            /\ Head(path) # "/"
            /\ ~(start /\ Head(path) = ".")
            /\ Matches(pattern, Tail(path), FALSE)
  ELSE /\ path # <<>>
       /\ Head(path) = Head(pattern)
       /\ Matches(Tail(pattern), Tail(path), Head(path) = "/")

\* glob(pattern): the paths that exist and match, in no particular order.
Glob(fs, pattern) == {p \in DOMAIN fs : Matches(pattern, p, TRUE)}

\* file.endswith(suffix)
EndsWith(file, suffix) ==
  /\ Len(file) >= Len(suffix)
  /\ SubSeq(file, Len(file) - Len(suffix) + 1, Len(file)) = suffix

\* pd.read_csv, pd.read_excel, pd.read_json of a path that exists: the
\* table the file holds; a directory cannot be read.
ReadFrame(fs, path) ==
  IF fs[path].kind = "data"
    THEN [status |-> "ok", error |-> "", frame |-> fs[path].frame]
    ELSE [status |-> "raise",
          error |-> IF fs[path].kind = "dir" THEN "IsADirectoryError" ELSE "ParserError",
          frame |-> DataFrame(0, <<>>)]

\* DataLoader.load_csv, load_excel and load_json on a path that exists.
LoadCsv(fs, path) == ReadFrame(fs, path)

LoadExcel(fs, path) == ReadFrame(fs, path)

LoadJson(fs, path) == ReadFrame(fs, path)

\* The whole path in place of Path(file).name.
TagWithPath(d, file) ==
  DataFrame(d.nrows,
            Append(d.cols, Column("__source_file", "object",
                                  Materialize([i \in 1..d.nrows |-> file]))))

\* df['__source_file'] = Path(file).name
TagSourceFile(d, file) ==
  LET tag == Column("__source_file", "object",
                    Materialize([i \in 1..d.nrows |-> BaseName(file)]))
  IN  IF "__source_file" \in ColumnNames(d)
        THEN DataFrame(d.nrows,
               Materialize([c \in 1..Len(d.cols) |->
                 IF d.cols[c].name = "__source_file" THEN tag ELSE d.cols[c]]))
        ELSE DataFrame(d.nrows, Append(d.cols, tag))

RECURSIVE ConcatNames(_, _)
\* The column names of the frames, each once, in order of appearance.
ConcatNames(dataframes, names) ==
  IF dataframes = <<>> THEN names
  ELSE ConcatNames(Tail(dataframes),
         names \o SelectSeq([c \in 1..Len(Head(dataframes).cols) |->
                               Head(dataframes).cols[c].name],
                            LAMBDA n : \A k \in 1..Len(names) : names[k] # n))

RECURSIVE ConcatCells(_, _)
\* The cells of the column called name, frame after frame; a frame without
\* the column gives missing cells.
ConcatCells(dataframes, name) ==
  IF dataframes = <<>> THEN <<>>
  ELSE LET d == Head(dataframes)
       IN  (IF name \in ColumnNames(d) THEN Col(d, name)
            ELSE Materialize([i \in 1..d.nrows |-> NaN]))
           \o ConcatCells(Tail(dataframes), name)

RECURSIVE ConcatRows(_)
ConcatRows(dataframes) ==
  IF dataframes = <<>> THEN 0
  ELSE Head(dataframes).nrows + ConcatRows(Tail(dataframes))

\* pd.concat(dataframes, ignore_index=True): rows one frame after the
\* other under the union of the columns.
Concat(dataframes) ==
  LET names == ConcatNames(dataframes, <<>>)
  IN  DataFrame(ConcatRows(dataframes),
        Materialize([c \in 1..Len(names) |->
          Column(names[c], "object", ConcatCells(dataframes, names[c]))]))

LoadResult(status, error, dataframes, frame) ==
  [op |-> "load_multiple", status |-> status, error |-> error,
   dataframes |-> dataframes, frame |-> frame]

RECURSIVE LoadFiles(_, _, _)
\* for file in sorted(files): ... dataframes.append(df)
LoadFiles(fs, sorted, dataframes) ==
  IF sorted = <<>> THEN LoadResult("ok", "", dataframes, DataFrame(0, <<>>))
  ELSE
    LET file == Head(sorted)
        read == IF EndsWith(file, <<".", "c", "s", "v">>) THEN LoadCsv(fs, file)
                ELSE IF \/ EndsWith(file, <<".", "x", "l", "s", "x">>)
                        \/ EndsWith(file, <<".", "x", "l", "s">>)
                  THEN LoadExcel(fs, file)
                ELSE IF EndsWith(file, <<".", "j", "s", "o", "n">>) THEN LoadJson(fs, file)
                ELSE [status |-> "continue"]
    IN  IF read.status = "continue" THEN LoadFiles(fs, Tail(sorted), dataframes)
        ELSE IF read.status = "raise"
          THEN LoadResult("raise", read.error, <<>>, DataFrame(0, <<>>))
        ELSE LoadFiles(fs, Tail(sorted),
                       Append(dataframes, TagSourceFile(read.frame, file)))

\* DataLoader.load_multiple
LoadMultiple(fs, pattern, concat) ==
  IF Glob(fs, pattern) = {}
    THEN LoadResult("raise", "FileNotFoundError", <<>>, DataFrame(0, <<>>))
    ELSE
      LET loaded == LoadFiles(fs, Sorted(Glob(fs, pattern)), <<>>)
      IN  IF loaded.status = "raise" \/ ~concat THEN loaded
          ELSE IF loaded.dataframes = <<>>
            THEN LoadResult("raise", "ValueError", <<>>, DataFrame(0, <<>>))
          ELSE LoadResult("ok", "", <<>>, Concat(loaded.dataframes))

\* -------------------------------------------------- loader specification
\* Largest number of rows of a data file.
MaxFileRows == 1

\* The files there can be: d/b.csv, d/A.json, d/c.xls, d/n.txt, e/b.csv.
DataPaths ==
  << <<"d", "/", "b", ".", "c", "s", "v">>,
     <<"d", "/", "A", ".", "j", "s", "o", "n">>,
     <<"d", "/", "c", ".", "x", "l", "s">>,
     <<"d", "/", "n", ".", "t", "x", "t">>,
     <<"e", "/", "b", ".", "c", "s", "v">> >>

\* The table of rows rows in the k-th file: one column, "w" in the third
\* file and "v" in the others, holding k.
DataFile(k, rows) ==
  [kind |-> "data",
   frame |-> DataFrame(rows, << Column(IF k = 3 THEN "w" ELSE "v", "number",
                                       Materialize([i \in 1..rows |-> k])) >>)]

\* The patterns: d/*, */b.csv, d/*.txt.
Patterns ==
  { <<"d", "/", "*">>,
    <<"*", "/", "b", ".", "c", "s", "v">>,
    <<"d", "/", "*", ".", "t", "x", "t">> }

\* Any of the files, each with up to MaxFileRows rows, in their
\* directories.
InitLoad ==
  /\ \E present \in SUBSET (1..Len(DataPaths)) :
       \E rows \in [present -> 0..MaxFileRows] :
         files = [p \in {DataPaths[k] : k \in present}
                        \cup {Parent(DataPaths[k]) : k \in present} |->
                    IF \E k \in present : DataPaths[k] = p
                      THEN DataFile(CHOOSE k \in present : DataPaths[k] = p,
                                    rows[CHOOSE k \in present : DataPaths[k] = p])
                      ELSE [kind |-> "dir"]]
  /\ df = DataFrame(0, <<>>)
  /\ analyzer = NewAnalyzer(NoConfig)
  /\ visualizer = NewVisualizer(NoConfig)
  /\ pyplot = NoFigures
  /\ out = NoCall

\* loader.load_multiple(pattern, concat)
CallLoadMultiple ==
  /\ out = NoCall
  /\ \E pattern \in Patterns : \E concat \in BOOLEAN :
       out' = WithArgs(LoadMultiple(files, pattern, concat), <<pattern, concat>>)
  /\ UNCHANGED <<df, analyzer, visualizer, pyplot, files>>

NextLoad == CallLoadMultiple \/ Discard

SpecLoad == InitLoad /\ [][NextLoad]_vars

\* ================================================================ claims
IsRfm == out.op = "segment_rfm"

RfmOk == IsRfm /\ out.status = "ok"

IsInsights == out.op = "generate_insights"

Recency == Col(df, "recency")

Frequency == Col(df, "frequency")

Monetary == Col(df, "monetary")

\* Row i has a recency, a frequency and a monetary value.
Complete(i) == ~IsNaN(Recency[i]) /\ ~IsNaN(Frequency[i]) /\ ~IsNaN(Monetary[i])

LabelTable ==
  <<"Lost", "At Risk", "Potential Loyalist", "Loyal Customer", "Champion">>

\* C1: profile(D) returns row_count = the number of rows of D (the length
\* of every column) and column_count = the number of columns of D, also for
\* a dataset with no rows or no columns.
C1_ProfileCounts ==
  out.op = "profile" =>
    /\ out.status = "ok"
    /\ out.row_count = df.nrows
    /\ \A c \in 1..Len(df.cols) : Len(df.cols[c].cells) = out.row_count
    /\ out.column_count = Len(df.cols)

C1_Witness ==
  /\ out.op = "profile"
  /\ df.nrows = 0
  /\ Len(df.cols) = 2
  /\ out.row_count = 0
  /\ out.column_count = 2

\* C2: a call that returns gives one label per row, the label of row i being
\* the table entry of the final bin index of row i (0 Lost, 1 At Risk,
\* 2 Potential Loyalist, 3 Loyal Customer, 4 Champion), and every label is
\* one of the five or 'Other'; with n_segments = 4 the combined scores are
\* in 0..9 and each gets such a label.
C2_LabelsFromTable ==
  RfmOk =>
    /\ Len(out.labels) = df.nrows
    /\ Len(out.segment_bins) = df.nrows
    /\ \A i \in 1..df.nrows :
         /\ out.segment_bins[i] \in 0..4 =>
              out.labels[i] = LabelTable[out.segment_bins[i] + 1]
         /\ out.labels[i] \in {LabelTable[k] : k \in 1..5} \cup {"Other"}
         /\ (out.n = 4 /\ ~IsNaN(out.rfm_score[i])) => out.rfm_score[i] \in 0..9

C2_Witness ==
  /\ RfmOk
  /\ out.n = 4
  /\ \A b \in 0..3 : \E i \in 1..df.nrows :
       out.segment_bins[i] = b /\ out.labels[i] = LabelTable[b + 1]

\* C3 as stated: a final bin index beyond the five-entry table is labeled
\* 'Other'.
C3_BeyondTableIsOther ==
  RfmOk =>
    \A i \in 1..df.nrows : out.segment_bins[i] > 4 => out.labels[i] = "Other"

\* C3 as amended: a final bin index beyond the five-entry table, which
\* arises only when n_segments > 5, is capped at 4 and labeled 'Champion'.
C3_BeyondTableIsChampion ==
  RfmOk =>
    \A i \in 1..df.nrows :
      out.segment_bins[i] > 4 => (out.labels[i] = "Champion" /\ out.n > 5)

C3_Witness ==
  /\ RfmOk
  /\ \E i \in 1..df.nrows :
       out.segment_bins[i] > 4 /\ out.labels[i] = "Champion"

\* C4: for every row with no missing value, the three scores are integers
\* in 0..n_segments-1, also when quantile buckets collapse, and the combined
\* score is their sum, in 0..3*(n_segments-1).
C4_ScoresInRange ==
  IsRfm =>
    \A i \in 1..df.nrows :
      Complete(i) =>
        /\ out.r_score[i] \in 0..(out.n - 1)
        /\ out.f_score[i] \in 0..(out.n - 1)
        /\ out.m_score[i] \in 0..(out.n - 1)
        /\ out.rfm_score[i] = out.r_score[i] + out.f_score[i] + out.m_score[i]
        /\ out.rfm_score[i] \in 0..(3 * (out.n - 1))

\* C5: r_score = (n_segments-1) - recency bucket for every row; a row with
\* a larger raw recency never has a higher score than a row with a smaller
\* one; and no row has a higher score than the rows of lowest recency.
C5_RecencyInverted ==
  IsRfm =>
    LET rq == out.r_quintiles
        recency == Recency
        valid == Valid(recency)
        lowest == SetMin({recency[i] : i \in valid})
    IN  /\ \A i \in 1..df.nrows : out.r_score[i] = Sub(out.n - 1, rq[i])
        /\ \A i, j \in valid :
             recency[i] > recency[j] =>
               /\ ~IsNaN(out.r_score[i])
               /\ ~IsNaN(out.r_score[j])
               /\ out.r_score[i] <= out.r_score[j]
        /\ \A i \in valid :
             recency[i] = lowest =>
               \A j \in 1..df.nrows :
                 ~IsNaN(out.r_score[j]) =>
                   (~IsNaN(out.r_score[i]) /\ out.r_score[j] <= out.r_score[i])

C5_Witness ==
  /\ RfmOk
  /\ \E i, j \in Valid(Recency) :
       /\ Recency[i] > Recency[j]
       /\ out.r_score[i] < out.r_score[j]
       /\ out.r_score[j] = out.n - 1

\* Row i has the strictly lowest recency, the strictly highest frequency and
\* the strictly highest monetary value of the dataset.
BestRow(i) ==
  /\ Complete(i)
  /\ \A j \in (1..df.nrows) \ {i} :
       /\ Complete(j)
       /\ Recency[i] < Recency[j]
       /\ Frequency[i] > Frequency[j]
       /\ Monetary[i] > Monetary[j]

\* C6: with n_segments = 4 and at least 4 rows, the row that has the
\* strictly lowest recency and the strictly highest frequency and monetary
\* value gets r_score 3 and a final bin index >= 3; so does row 0 of the
\* scenario recency=[1,5,10,50], frequency=[10,8,3,1],
\* monetary=[500,300,100,20].
C6_BestRowTopSegment ==
  (IsRfm /\ out.n = 4 /\ df.nrows >= 4) =>
    /\ \A i \in 1..df.nrows :
         BestRow(i) =>
           /\ out.status = "ok"
           /\ out.r_score[i] = 3
           /\ out.segment_bins[i] >= 3
           /\ out.labels[i] \in {"Loyal Customer", "Champion"}
    /\ df = ScenarioFrame =>
         /\ out.status = "ok"
         /\ out.r_score[1] = 3
         /\ out.segment_bins[1] >= 3
         /\ out.labels[1] \in {"Loyal Customer", "Champion"}

C6_Witness ==
  /\ RfmOk
  /\ out.n = 4
  /\ df = ScenarioFrame
  /\ BestRow(1)
  /\ out.r_score[1] = 3
  /\ out.labels[1] = "Loyal Customer"

\* C7: in a call that returns, the final bin index of every row with
\* complete data is in 0..n_segments-1, and the bins are the n_segments
\* intervals of equal width (max - min) / n_segments over the combined
\* scores of the call: bin b holds the scores in
\* (min + b*width, min + (b+1)*width], the lowest score being in bin 0.
C7_EqualWidthBins ==
  RfmOk =>
    LET scores == {out.rfm_score[i] : i \in Valid(out.rfm_score)}
        mn == SetMin(scores)
        mx == SetMax(scores)
        complete == {i \in 1..df.nrows : Complete(i)}
    IN  \A i \in complete :
          LET b == out.segment_bins[i]
              sc == out.rfm_score[i]
          IN  /\ b \in 0..(out.n - 1)
              /\ mn < mx =>
                   \/ (sc = mn /\ b = 0)
                   \/ /\ out.n * mn + b * (mx - mn) < out.n * sc
                      /\ out.n * sc <= out.n * mn + (b + 1) * (mx - mn)

C7_Witness ==
  /\ RfmOk
  /\ out.n = 4
  /\ \E i, j \in 1..df.nrows :
       /\ Complete(i) /\ Complete(j)
       /\ out.rfm_score[i] # out.rfm_score[j]
       /\ out.segment_bins[i] = out.segment_bins[j]
  /\ \E b \in 0..3 : \A i \in 1..df.nrows : out.segment_bins[i] # b

\* The recency column has values, none missing, and fewer than
\* n_segments + 1 distinct quantile edges.
RecencyCollapses ==
  /\ df.nrows >= 2
  /\ \A i \in 1..df.nrows : Complete(i)
  /\ Cardinality(QuantileEdges(SortedValid(Recency), out.n)) < out.n + 1

\* C8: when a column has fewer than n_segments distinct quantile edges
\* (tied or all-equal recency values) the call does not fail and returns a
\* label for every row.
C8_CollapseDoesNotFail ==
  (IsRfm /\ RecencyCollapses) =>
    /\ out.status = "ok"
    /\ Len(out.labels) = df.nrows

\* C9: for every dataset generate_insights returns a non-empty list whose
\* first element is the row/column count insight with the dataset's counts.
C9_ShapeInsightAlways ==
  IsInsights =>
    /\ out.status = "ok"
    /\ Len(out.insights) >= 1
    /\ out.insights[1] = Insight("shape", "", "", "", df.nrows, Len(df.cols))

\* The columns of the dataset that have at least one missing cell.
ColumnsWithMissingCell ==
  {c \in 1..Len(df.cols) : \E k \in 1..df.nrows : IsNaN(df.cols[c].cells[k])}

\* C10: the missing-value insight is emitted (once) if and only if the
\* dataset has a missing cell, and it reports the number of columns that
\* have a missing cell.
C10_MissingInsight ==
  IsInsights =>
    LET at == {k \in 1..Len(out.insights) : out.insights[k].kind = "missing"}
    IN  /\ (at # {}) <=> (ColumnsWithMissingCell # {})
        /\ Cardinality(at) <= 1
        /\ \A k \in at :
             out.insights[k].value = Cardinality(ColumnsWithMissingCell)

C10_Witness ==
  /\ IsInsights
  /\ out.status = "ok"
  /\ df.nrows = 2
  /\ Cardinality(ColumnsWithMissingCell) = 1
  /\ \E c \in ColumnsWithMissingCell :
       \A k \in 1..df.nrows : IsNaN(df.cols[c].cells[k])
  /\ \E k \in 1..Len(out.insights) :
       out.insights[k].kind = "missing" /\ out.insights[k].value = 1

InsightsOk == IsInsights /\ out.status = "ok"

\* The number of numeric columns among the first i columns of the dataset.
NumericRank(i) == Cardinality({k \in 1..i : df.cols[k].dtype = "number"})

\* The result holds an insight of this kind about the column called name.
HasInsight(kind, name) ==
  \E k \in 1..Len(out.insights) :
    out.insights[k].kind = kind /\ out.insights[k].col = name

\* C11: a returned list holds a 'high variability' insight about a column
\* exactly when the column is one of the first 3 numeric columns in column
\* order and its CV = std/mean*100 is greater than 50 (CV being 0 when the
\* mean is 0); a fourth or later numeric column, and a column that is not
\* numeric, gets neither a variability nor a skew insight.
C11_VariabilityFirstThree ==
  InsightsOk =>
    \A i \in 1..Len(df.cols) :
      LET col == df.cols[i]
          numeric == col.dtype = "number"
      IN  /\ HasInsight("variability", col.name) <=>
               (numeric /\ NumericRank(i) <= 3 /\ HighVariability(col.cells))
          /\ (~numeric \/ NumericRank(i) > 3) =>
               (~HasInsight("variability", col.name)
                  /\ ~HasInsight("skew", col.name))

C11_Witness ==
  /\ InsightsOk
  /\ Len(df.cols) >= 4
  /\ HasInsight("variability", df.cols[1].name)
  /\ \E i \in 1..Len(df.cols) :
       /\ df.cols[i].dtype = "number"
       /\ NumericRank(i) = 4
       /\ HighVariability(df.cols[i].cells)
       /\ SkewDirection(df.cols[i].cells) # 0
       /\ ~HasInsight("variability", df.cols[i].name)
       /\ ~HasInsight("skew", df.cols[i].name)

\* C12: for a numeric column with mean # 0 and a positive constant c, the
\* column and the column multiplied by c get the same decision of the
\* 'high variability' test.
C12_ScaleInvariant ==
  out.op = "cv_scaled" =>
    LET x == Col(df, out.col)
    IN  (Valid(x) # {} /\ Total(x, Valid(x)) # 0) => out.before = out.after

\* The skew insights of the result about the column called name.
SkewInsights(name) ==
  {k \in 1..Len(out.insights) :
     out.insights[k].kind = "skew" /\ out.insights[k].col = name}

\* C13: for each of the first 3 numeric columns a returned list holds a
\* skew insight exactly when |skew| > 1, saying 'right' when skew > 0 and
\* 'left' when skew < 0; with |skew| <= 1 (or no skew, for fewer than 3
\* values) there is none.
C13_SkewInsight ==
  InsightsOk =>
    \A i \in 1..Len(df.cols) :
      (df.cols[i].dtype = "number" /\ NumericRank(i) <= 3) =>
        LET skew == SkewDirection(df.cols[i].cells)
            said == SkewInsights(df.cols[i].name)
        IN  /\ skew = 0 => said = {}
            /\ skew # 0 => Cardinality(said) = 1
            /\ \A k \in said :
                 out.insights[k].direction = IF skew > 0 THEN "right" ELSE "left"

C13_Witness ==
  /\ InsightsOk
  /\ \E i, j, l \in 1..Len(df.cols) :
       /\ NumericRank(l) <= 3
       /\ \E k \in SkewInsights(df.cols[i].name) :
            out.insights[k].direction = "right"
       /\ \E k \in SkewInsights(df.cols[j].name) :
            out.insights[k].direction = "left"
       /\ df.cols[l].cells = <<4, 2, 1>>
       /\ SkewInsights(df.cols[l].name) = {}

\* The unordered pairs of distinct numeric columns, by position.
NumericPairs ==
  {p \in (1..Len(NumericCols(df))) \X (1..Len(NumericCols(df))) : p[1] < p[2]}

\* The pairs that have a coefficient.
DefinedPairs == {p \in NumericPairs : ~CorrMatrix(df)[p].nan}

\* The pairs whose |coefficient| no pair exceeds.
MaxPairs ==
  {p \in DefinedPairs :
     \A q \in DefinedPairs : ~AbsGreater(CorrMatrix(df)[q], CorrMatrix(df)[p])}

\* Pair p comes before pair q in the enumeration i increasing, then j > i.
PairBefore(p, q) == p[1] < q[1] \/ (p[1] = q[1] /\ p[2] < q[2])

\* The correlation insights of the result.
CorrInsights ==
  {k \in 1..Len(out.insights) : out.insights[k].kind = "correlation"}

\* The insight at k reports pair p.
Reports(k, p) ==
  /\ out.insights[k].col = NumericCols(df)[p[1]].name
  /\ out.insights[k].col2 = NumericCols(df)[p[2]].name

\* C14: with at least 2 numeric columns a returned list holds at most one
\* correlation insight; it holds one exactly when the largest |coefficient|
\* over the pairs of distinct numeric columns is greater than 0.7, and the
\* insight names a pair of that largest |coefficient|, says 'positive' when
\* the coefficient is > 0 and 'negative' otherwise, and shows the
\* coefficient rounded to 2 decimals.
C14_StrongestPair ==
  (InsightsOk /\ Len(NumericCols(df)) >= 2) =>
    /\ Cardinality(CorrInsights) <= 1
    /\ CorrInsights # {} <=>
         \E p \in MaxPairs : StrongCorr(CorrMatrix(df)[p])
    /\ \A k \in CorrInsights :
         \E p \in MaxPairs :
           LET r == CorrMatrix(df)[p]
           IN  /\ Reports(k, p)
               /\ out.insights[k].direction =
                    IF r.num > 0 THEN "positive" ELSE "negative"
               /\ out.insights[k].value = CorrHundredths(r)

\* C15: when several pairs share the largest |coefficient|, the pair that a
\* returned list reports is the first of them in the enumeration order
\* i increasing, then j > i increasing.
C15_TieFirstEncountered ==
  (InsightsOk /\ Cardinality(MaxPairs) >= 2) =>
    \A k \in CorrInsights :
      \E p \in MaxPairs :
        /\ Reports(k, p)
        /\ \A q \in MaxPairs : ~PairBefore(q, p)

\* C16: on a dataset with fewer than 2 numeric columns generate_insights
\* returns and the list holds no correlation insight; with no numeric
\* column the list is the row/column count insight followed, exactly when
\* a cell is missing, by the missing-value insight, and nothing else.
C16_FewNumericColumns ==
  (IsInsights /\ Len(NumericCols(df)) < 2) =>
    /\ out.status = "ok"
    /\ CorrInsights = {}
    /\ Len(NumericCols(df)) = 0 =>
         /\ Len(out.insights) = IF ColumnsWithMissingCell = {} THEN 1 ELSE 2
         /\ out.insights[1].kind = "shape"
         /\ Len(out.insights) = 2 => out.insights[2].kind = "missing"

C16_Witness ==
  /\ InsightsOk
  /\ Len(NumericCols(df)) = 1
  /\ Len(CatCols(df)) = 1
  /\ HasInsight("variability", NumericCols(df)[1].name)
  /\ ColumnsWithMissingCell # {}
  /\ CorrInsights = {}

\* C17: Analyzer.correlation raises its 'No numeric columns found' error
\* exactly when the dataset has no numeric column or no row, and then
\* returns no matrix; otherwise it returns the matrix over the numeric
\* columns, which is not empty.
C17_CorrelationRaises ==
  out.op = "correlation" =>
    LET n == Len(NumericCols(df))
    IN  /\ out.status = "raise" <=> (n = 0 \/ df.nrows = 0)
        /\ out.status = "raise" => (out.error = "ValueError" /\ out.corr = <<>>)
        /\ out.status # "raise" =>
             /\ out.status = "ok"
             /\ DOMAIN out.corr = (1..n) \X (1..n)
             /\ DOMAIN out.corr # {}

C17_Witness ==
  /\ out.op = "correlation"
  /\ out.status = "raise"
  /\ df.nrows > 0
  /\ Len(df.cols) = 2
  /\ \A c \in 1..Len(df.cols) : df.cols[c].dtype = "object"

\* The column-name arguments of the call whose result is held.
ColumnArgs == IF out.op = "segment_rfm" THEN SubSeq(out.args, 1, 3) ELSE out.args

\* The call was segment_rfm, time_series_stats or group_stats and one of
\* the column names it was given is not a column of the dataset.
AbsentColumnCall ==
  /\ out.op \in {"segment_rfm", "time_series_stats", "group_stats"}
  /\ \E i \in 1..Len(ColumnArgs) : ColumnArgs[i] \notin ColumnNames(df)

\* The call handed back nothing.
NoPartialResult ==
  IF out.op = "segment_rfm" THEN out.labels = <<>> /\ out.segment_bins = <<>>
  ELSE IF out.op = "time_series_stats" THEN out.stats = <<>>
  ELSE out.groups = {}

\* C18: segment_rfm, time_series_stats and group_stats, given a column
\* name that is absent from the dataset, raise an error that identifies
\* both the absent column and the operation, and hand back no partial
\* result.
C18_InvalidColumnError ==
  AbsentColumnCall =>
    /\ out.status = "raise"
    /\ NoPartialResult
    /\ out.message.column \in {ColumnArgs[i] : i \in 1..Len(ColumnArgs)} \ ColumnNames(df)
    /\ out.message.operation = out.op

\* C19: no operation of the Analyzer or the DataCleaner changes the
\* dataset it was given: whether the call returns or raises, the caller's
\* dataset has the same rows, columns, column names and cells as before.
C19_DatasetUnchanged == [][df' = df]_vars

C19_Witness ==
  /\ out.op = "clean_pipeline"
  /\ out.status = "ok"
  /\ out.frame.nrows < df.nrows
  /\ ColumnNames(out.frame) # ColumnNames(df)

PipelineOrder ==
  <<"standardize_columns", "trim_whitespace", "remove_duplicates",
    "fill_missing", "remove_outliers", "convert_types">>

\* Whether the arguments <<remove_duplicates, fill_missing, remove_outliers,
\* standardize_columns, trim_whitespace, type_conversions>> enable a step.
StepEnabled(step, args) ==
  IF step = "standardize_columns" THEN args[4]
  ELSE IF step = "trim_whitespace" THEN args[5]
  ELSE IF step = "remove_duplicates" THEN args[1]
  ELSE IF step = "fill_missing" THEN ~args[2].none
  ELSE IF step = "remove_outliers" THEN ~args[3].none
  ELSE ~args[6].none

\* One cleaning method called on its own on the dataset d.
MethodAlone(step, d, args) ==
  IF step = "standardize_columns" THEN StandardizeColumns(Bind(d), TRUE, <<"_">>)
  ELSE IF step = "trim_whitespace" THEN TrimWhitespace(Bind(d), None)
  ELSE IF step = "remove_duplicates" THEN RemoveDuplicates(Bind(d), "first")
  ELSE IF step = "fill_missing" THEN FillMissing(Bind(d), FALSE, args[2].value, <<>>)
  ELSE IF step = "remove_outliers" THEN RemoveOutliers(Bind(d), args[3], <<3, 2>>)
  ELSE ConvertTypes(Bind(d), args[6].value)

\* What the caller holds after one method called on its own.
AfterMethod(m) ==
  [status |-> m.status, warnings |-> m.warnings,
   frame |-> IF m.status = "ok" THEN m.env.frame ELSE NoFrame]

RECURSIVE RunSteps(_, _, _)
\* The methods of steps called one after the other by hand, each on the
\* dataset the one before returned, stopping at the first that raises.
RunSteps(r, steps, args) ==
  IF steps = <<>> \/ r.status = "raise" THEN r
  ELSE RunSteps(AfterMethod(MethodAlone(Head(steps), r.frame, args)),
                Tail(steps), args)

IsPipeline == out.op = "clean_pipeline"

\* The enabled steps of the call whose result is held, in the fixed order.
EnabledSteps == SelectSeq(PipelineOrder, LAMBDA step : StepEnabled(step, out.args))

\* C21: clean_pipeline gives what its enabled steps give when they are run
\* by hand in the fixed order standardize, trim, duplicates, fill,
\* outliers, convert, each on the output of the one before: a disabled step
\* is left out without reordering the others, and the names given for
\* outlier removal and type conversion meet the standardized names.
C21_PipelineOrder ==
  IsPipeline =>
    LET byhand == RunSteps([status |-> "ok", warnings |-> <<>>, frame |-> df],
                           EnabledSteps, out.args)
    IN  /\ out.status = byhand.status
        /\ out.frame = byhand.frame
        /\ out.warnings = byhand.warnings

\* Two rows that differ only in the blank before the tag are one row after
\* trimming, and the amount is converted under its standardized name.
C21_Witness ==
  /\ IsPipeline
  /\ out.status = "ok"
  /\ \A i \in {1, 4, 5} : out.args[i]
  /\ out.args[2] = None
  /\ ~out.args[3].none /\ ~out.args[6].none
  /\ df.nrows = 2
  /\ Row(df, 1) # Row(df, 2)
  /\ out.frame.nrows = 1
  /\ out.warnings = <<>>
  /\ StandardAmountCol \in ColumnNames(out.frame)
  /\ StandardAmountCol \notin ColumnNames(df)

IsConvert == out.op = "convert_types"

\* The dtype type_map (the argument of the call held) gives for col, or
\* "" when it does not name col.
Requested(col) ==
  LET type_map == out.args[1]
  IN  IF \E k \in 1..Len(type_map) : type_map[k][1] = col
        THEN type_map[CHOOSE k \in 1..Len(type_map) : type_map[k][1] = col][2]
        ELSE ""

\* The columns a warning was printed for.
Warned == {out.warnings[k] : k \in 1..Len(out.warnings)}

\* C22: convert_types never raises over a conversion.  A name of type_map
\* that is not a column is skipped; a column whose conversion raises keeps
\* its dtype and cells and gets a warning; every other column named in
\* type_map is converted, also after a failure; the columns type_map does
\* not name are as they were.
C22_ConvertNeverRaises ==
  IsConvert =>
    /\ out.status = "ok"
    /\ Len(out.frame.cols) = Len(df.cols)
    /\ Warned \subseteq ColumnNames(df)
    /\ \A i \in 1..Len(df.cols) :
         LET before == df.cols[i]
             after  == out.frame.cols[i]
             dtype  == Requested(before.name)
         IN  /\ after.name = before.name
             /\ IF dtype = "" THEN after = before /\ before.name \notin Warned
                ELSE IF Convert(df, before.name, dtype).raises
                  THEN after = before /\ before.name \in Warned
                ELSE /\ after.dtype = Convert(df, before.name, dtype).dtype
                     /\ after.cells = Convert(df, before.name, dtype).cells
                     /\ before.name \notin Warned

\* An absent name first, then a conversion that raises, then one that is
\* still carried out.
C22_Witness ==
  /\ IsConvert
  /\ out.status = "ok"
  /\ df.nrows > 0
  /\ Len(out.args[1]) = 3
  /\ out.args[1][1][1] \notin ColumnNames(df)
  /\ out.warnings = <<out.args[1][2][1]>>
  /\ DType(out.frame, out.args[1][2][1]) = DType(df, out.args[1][2][1])
  /\ DType(out.frame, out.args[1][3][1]) = "category"
  /\ DType(df, out.args[1][3][1]) = "number"

\* The call held is fill_missing with a string strategy and a fill_value
\* that has an item.
FillValueCall ==
  /\ out.op = "fill_missing"
  /\ out.args[2] # <<>>
  /\ out.args[1] \in Strategies

\* The value fill_value (of the call held) gives for col; NaN when it does
\* not name col, so that FillNa with it fills nothing.
ValueFor(col) ==
  LET fill_value == out.args[2]
  IN  IF \E k \in 1..Len(fill_value) : fill_value[k][1] = col
        THEN fill_value[CHOOSE k \in 1..Len(fill_value) : fill_value[k][1] = col][2]
        ELSE NaN

FillValueNames == {out.args[2][k][1] : k \in 1..Len(out.args[2])}

\* C25: in fill_missing a fill_value with an item wins over strategy.  The
\* result is the dataset with the missing cells of each named column
\* replaced by the value given for it and every other column, and every
\* row, as it was, whatever the strategy is ('drop' removes no row); a
\* name that is not a column raises KeyError.
C25_FillValuePrecedence ==
  FillValueCall =>
    IF FillValueNames \subseteq ColumnNames(df)
      THEN /\ out.status = "ok"
           /\ out.frame.nrows = df.nrows
           /\ Len(out.frame.cols) = Len(df.cols)
           /\ \A i \in 1..Len(df.cols) :
                out.frame.cols[i] =
                  Column(df.cols[i].name, df.cols[i].dtype,
                         FillNa(df.cols[i].cells, ValueFor(df.cols[i].name)))
      ELSE out.status = "raise" /\ out.error = "KeyError"

\* strategy='drop' with a fill_value for the tag only: the row whose
\* amount is missing is still there, its amount still missing.
C25_Witness ==
  /\ FillValueCall
  /\ out.args[1] = "drop"
  /\ out.status = "ok"
  /\ \E r \in 1..df.nrows :
       /\ IsNaN(Col(df, TagCol)[r]) /\ ~IsNaN(Col(out.frame, TagCol)[r])
  /\ \E r \in 1..df.nrows :
       /\ IsNaN(Col(df, AmountCol)[r]) /\ IsNaN(Col(out.frame, AmountCol)[r])

IsCleaner ==
  out.op \in {"remove_duplicates", "fill_missing", "remove_outliers",
              "standardize_columns", "convert_types", "trim_whitespace",
              "clean_pipeline"}

\* Row j of the result is row i of the input, with missing cells possibly
\* filled (filled = TRUE) or cell for cell (filled = FALSE).
SameRow(j, i, filled) ==
  \A c \in 1..Len(df.cols) :
    \/ out.frame.cols[c].cells[j] = df.cols[c].cells[i]
    \/ filled /\ IsNaN(df.cols[c].cells[i])

RECURSIVE RowsFrom(_, _, _)
\* The rows j.. of the result are rows of the input from i on, in the
\* order of the input.
RowsFrom(j, i, filled) ==
  IF j > out.frame.nrows THEN TRUE
  ELSE IF i > df.nrows THEN FALSE
  ELSE IF SameRow(j, i, filled) THEN RowsFrom(j + 1, i + 1, filled)
  ELSE RowsFrom(j, i + 1, filled)

\* The strategy of the fill_missing call held removes rows: 'drop', or a
\* dict with a 'drop' entry, and no fill_value that takes its place.
DropsRows ==
  /\ out.args[2] = <<>>
  /\ IF out.args[3]
       THEN \E k \in 1..Len(out.args[1]) : out.args[1][k][2] = "drop"
       ELSE out.args[1] = "drop"

\* C30: no cleaning operation adds a row or a column.  What
\* remove_duplicates, remove_outliers and fill_missing return is made of
\* rows of the input in their original order; fill_missing with a strategy
\* other than 'drop', standardize_columns, convert_types and
\* trim_whitespace return as many rows as they were given; clean_pipeline
\* returns at most as many rows; all return as many columns.
C30_NoRowsOrColumnsAdded ==
  (IsCleaner /\ out.status = "ok") =>
    /\ Len(out.frame.cols) = Len(df.cols)
    /\ out.frame.nrows <= df.nrows
    /\ out.op \in {"remove_duplicates", "remove_outliers"} => RowsFrom(1, 1, FALSE)
    /\ out.op = "fill_missing" => RowsFrom(1, 1, TRUE)
    /\ (out.op = "fill_missing" /\ ~DropsRows) => out.frame.nrows = df.nrows
    /\ out.op \in {"standardize_columns", "convert_types", "trim_whitespace"} =>
         out.frame.nrows = df.nrows

\* remove_outliers took a row with an outlying value out of three complete
\* rows and left the other two, which differ, in their order.
C30_Witness ==
  /\ out.op = "remove_outliers"
  /\ out.status = "ok"
  /\ df.nrows = 3
  /\ \A c \in 1..Len(df.cols) : Valid(df.cols[c].cells) = 1..3
  /\ out.frame.nrows = 2
  /\ Row(out.frame, 1) # Row(out.frame, 2)

\* C26: within one segment_rfm call the final bin index is monotone in the
\* combined score: a row whose combined score is greater than or equal to
\* another row's has a bin index greater than or equal to it, and rows of
\* equal combined score (or both without one) have the same label.
C26_BinsMonotone ==
  RfmOk =>
    \A a, b \in 1..df.nrows :
      /\ (~IsNaN(out.rfm_score[a]) /\ ~IsNaN(out.rfm_score[b])
            /\ out.rfm_score[a] >= out.rfm_score[b]) =>
           /\ ~IsNaN(out.segment_bins[a]) /\ ~IsNaN(out.segment_bins[b])
           /\ out.segment_bins[a] >= out.segment_bins[b]
      /\ out.rfm_score[a] = out.rfm_score[b] => out.labels[a] = out.labels[b]

\* Two rows share a combined score and a third has a higher one and a
\* higher bin.
C26_Witness ==
  /\ RfmOk
  /\ \E a, b, c \in 1..df.nrows :
       /\ a # b
       /\ ~IsNaN(out.rfm_score[a])
       /\ out.rfm_score[a] = out.rfm_score[b]
       /\ ~IsNaN(out.rfm_score[c])
       /\ out.rfm_score[c] > out.rfm_score[a]
       /\ out.segment_bins[c] > out.segment_bins[a]

\* The first min(n_segments, 5) labels of the table.
FirstLabels(n_segments) ==
  {LabelTable[k] : k \in 1..(IF n_segments < 5 THEN n_segments ELSE 5)}

\* C27: segment_rfm gives 'Other' only to rows with a missing recency,
\* frequency or monetary value; every row with complete data gets one of
\* the first min(n_segments, 5) labels of the table, so that with
\* n_segments = 4 no row is labeled 'Champion'.
C27_OtherOnlyForMissing ==
  RfmOk =>
    LET complete == {i \in 1..df.nrows : Complete(i)}
        first == FirstLabels(out.n)
    IN  \A i \in 1..df.nrows :
          /\ out.labels[i] = "Other" => i \notin complete
          /\ i \in complete => out.labels[i] \in first
          /\ out.n = 4 => out.labels[i] # "Champion"

\* With n_segments = 4 a row without a recency is 'Other' and complete rows
\* take the lowest and the highest label there is.
C27_Witness ==
  /\ RfmOk
  /\ out.n = 4
  /\ \E i, j, k \in 1..df.nrows :
       /\ ~Complete(i) /\ out.labels[i] = "Other"
       /\ Complete(j) /\ out.labels[j] = "Loyal Customer"
       /\ Complete(k) /\ out.labels[k] = "Lost"

\* The combined scores observed in the call held.
ObservedScores == {out.rfm_score[i] : i \in Valid(out.rfm_score)}

\* C28: the equal-width bins span the combined scores observed in the
\* call, not the fixed range [0, 3 * (n_segments - 1)]: when at least two
\* distinct combined scores occur, the rows with the highest one get bin
\* n_segments - 1 and the rows with the lowest one get bin 0.
C28_BinsSpanObserved ==
  (RfmOk /\ Cardinality(ObservedScores) >= 2) =>
    LET highest == SetMax(ObservedScores)
        lowest == SetMin(ObservedScores)
    IN  \A i \in Valid(out.rfm_score) :
          /\ out.rfm_score[i] = highest => out.segment_bins[i] = out.n - 1
          /\ out.rfm_score[i] = lowest => out.segment_bins[i] = 0

\* The observed scores lie strictly inside the fixed range and still take
\* the first and the last bin.
C28_Witness ==
  /\ RfmOk
  /\ out.n = 4
  /\ Cardinality(ObservedScores) >= 2
  /\ SetMin(ObservedScores) > 0
  /\ SetMax(ObservedScores) < 3 * (out.n - 1)
  /\ \E i, j \in Valid(out.rfm_score) :
       out.segment_bins[i] = 0 /\ out.segment_bins[j] = 3

\* Among rows of equal raw value an earlier row never has a higher score
\* than a later one.
TiesByRowOrder(raw, score) ==
  \A i, j \in Valid(raw) :
    (i < j /\ raw[i] = raw[j]) =>
      /\ ~IsNaN(score[i]) /\ ~IsNaN(score[j])
      /\ score[i] <= score[j]

\* The scores take every bucket 0..n_segments-1.
UsesAllBuckets(score) == {score[i] : i \in Valid(score)} = 0..(out.n - 1)

\* Rows of equal recency have the same recency score.
RecencyTiesShare ==
  LET recency == Recency
  IN  \A i, j \in 1..df.nrows :
        recency[i] = recency[j] => out.r_score[i] = out.r_score[j]

PlotCall == out'.matplotlib

\* The step is a save_plot call that wrote the image of figure fig.
SavedFigure(fig) ==
  \E path \in DOMAIN files' :
    /\ files'[path].kind = "image"
    /\ files'[path].fig = fig

\* C23: over any sequence of Visualizer calls, save_plot writes a file
\* only when there is a current figure: before the first plot_* call, and
\* after close_plot until the next plot_* call, it writes nothing and
\* reports 'No plot to save'; each matplotlib plot_* call makes the figure
\* it has just created the current one and no other call changes it, so
\* that save_plot saves the figure of the most recent plot_* call.
C23_SavePlotCurrentFigure ==
  [][ /\ pyplot.figs = <<>> => visualizer.current_fig = 0
      /\ out'.op = "close_plot" => visualizer'.current_fig = 0
      /\ PlotCall =>
           /\ visualizer'.current_fig > Len(pyplot.figs)
           /\ visualizer'.current_fig <= Len(pyplot'.figs)
      /\ (~PlotCall /\ out'.op # "close_plot") =>
           visualizer'.current_fig = visualizer.current_fig
      /\ out'.op = "save_plot" =>
           /\ visualizer.current_fig = 0 =>
                (files' = files /\ out'.printed = "No plot to save")
           /\ files' # files => visualizer.current_fig # 0
           /\ out'.printed = "Plot saved to" => SavedFigure(visualizer.current_fig)
    ]_vars

\* After a plot, close_plot and another plot, save_plot has written the
\* second figure; the first is closed.
C23_Witness ==
  /\ out.op = "save_plot"
  /\ out.printed = "Plot saved to"
  /\ visualizer.current_fig = 2
  /\ pyplot.managers = <<2>>
  /\ \E path \in DOMAIN files : files[path].kind = "image" /\ files[path].fig = 2

\* The files the pattern of the call held matches.
Matched == {p \in DOMAIN files : Matches(out.args[1], p, TRUE)}

\* The matched files with a supported extension.
Loadable ==
  {p \in Matched :
     \E ext \in { <<".", "c", "s", "v">>, <<".", "x", "l", "s", "x">>,
                  <<".", "x", "l", "s">>, <<".", "j", "s", "o", "n">> } :
       EndsWith(p, ext)}

\* The i-th of them in sorted path order.
NthLoaded(i) ==
  CHOOSE p \in Loadable : Cardinality({q \in Loadable : StrLess(q, p)}) = i - 1

RECURSIVE RowsBefore(_)
\* The number of rows in the files before the i-th.
RowsBefore(i) ==
  IF i = 1 THEN 0 ELSE RowsBefore(i - 1) + files[NthLoaded(i - 1)].frame.nrows

\* The rows offset+1.. of frame are the rows of the file at path, each
\* tagged with the base name of the file in __source_file.
TaggedRows(frame, offset, path) ==
  LET table == files[path].frame
  IN  /\ ColumnNames(table) \cup {"__source_file"} \subseteq ColumnNames(frame)
      /\ frame.nrows >= offset + table.nrows
      /\ \A r \in 1..table.nrows :
           /\ Col(frame, "__source_file")[offset + r] = BaseName(path)
           /\ \A name \in ColumnNames(table) :
                Col(frame, name)[offset + r] = Col(table, name)[r]

\* C24: load_multiple raises FileNotFoundError when the pattern matches no
\* file; otherwise it loads the matched files with a supported extension
\* in sorted path order, skips the others, tags every loaded row with the
\* base name of its file in __source_file, and returns the concatenation
\* (concat=True) or the list of frames in that order (concat=False).
C24_LoadMultiple ==
  out.op = "load_multiple" =>
    IF Matched = {}
      THEN out.status = "raise" /\ out.error = "FileNotFoundError"
      ELSE
        /\ out.status = "ok"
        /\ ~out.args[2] =>
             /\ Len(out.dataframes) = Cardinality(Loadable)
             /\ \A i \in 1..Cardinality(Loadable) :
                  /\ out.dataframes[i].nrows = files[NthLoaded(i)].frame.nrows
                  /\ TaggedRows(out.dataframes[i], 0, NthLoaded(i))
        /\ out.args[2] =>
             /\ out.frame.nrows = RowsBefore(Cardinality(Loadable) + 1)
             /\ \A i \in 1..Cardinality(Loadable) :
                  TaggedRows(out.frame, RowsBefore(i), NthLoaded(i))

====
